---------------------------- MODULE Spec2Model ----------------------------
(***************************************************************************)
(* A model of the long-term memory engine of ai_memory:                    *)
(*   - memory_redis.py : the vector index, the deduplication check,        *)
(*     store_memory and retrieve_memories;                                 *)
(*   - store_tool.py / retrieve_tool.py : the agent tools and the scope    *)
(*     they take from the per-call config;                                 *)
(*   - memory_manager.py : MemoryManager over mem0 (add / search / delete).*)
(*                                                                         *)
(* Text is modelled as a sequence of tokens, so that what a filter string  *)
(* means to the index (the tag separator "|") is computed, not assumed.    *)
(* Cosine distances are integers in hundredths (0.1 is 10).                *)
(***************************************************************************)
EXTENDS Integers, Sequences, FiniteSets, TLC

VARIABLES
    index,      \* long_term_memory_index: the records loaded, in load order
    pc,         \* per concurrent caller: where it is inside store_memory
    args,       \* per concurrent caller: the arguments of its pending store_memory
    overlap,    \* history: some store_memory call started while another was pending
    last,       \* the operation performed by the last step, and what it returned
    mem0,       \* MemoryManager._memory: the memories held by mem0
    initialized,\* MemoryManager._initialized
    next_id,    \* the next memory id mem0 assigns
    memory_manager,     \* MemoryMCPServer.memory_manager is set (not None)
    server_initialized, \* MemoryMCPServer._initialized
    default_sections,   \* the section dicts ConfigManager.DEFAULT_CONFIG refers to
    _config,            \* ConfigManager._config: per section, the dict it refers to
    run_pc,             \* the task of MemoryMCPServer.run(): where it is
    run_exit,           \* how MemoryMCPServer.run() ended ("": it has not)
    runner_pc,          \* ServerRunner.run_server(): where it is
    shutdown_event,     \* ServerRunner.shutdown_event is set
    shutdown_calls,     \* history: the MemoryMCPServer.shutdown() calls made
    messages,           \* agents: state["messages"]
    op_pc               \* per concurrent caller: where it is inside get_memories

vars == <<index, pc, args, overlap, last, mem0, initialized, next_id,
          memory_manager, server_initialized, default_sections, _config,
          run_pc, run_exit, runner_pc, shutdown_event, shutdown_calls,
          messages, op_pc>>
redis_vars == <<index, pc, args, overlap>>
mgr_vars == <<mem0, initialized, next_id>>
server_vars == <<memory_manager, server_initialized>>
config_vars == <<default_sections, _config>>
task_vars == <<run_pc, run_exit, runner_pc, shutdown_event, shutdown_calls,
               messages, op_pc>>

---------------------------------------------------------------------------
(* Bounds of the model *)

MaxRecords == 2
MaxMemories == 2
MaxMessages == 3

---------------------------------------------------------------------------
(* Text, users, threads, memory types *)

None == <<>>
Bar == "|"

SYSTEM_USER_ID == <<"system">>
Alice == <<"alice">>
Bob == <<"bob">>
AliceOrBob == <<"alice", Bar, "bob">>

EPISODIC == "episodic"
SEMANTIC == "semantic"
MemoryType == {EPISODIC, SEMANTIC}

\* user_id arguments of store calls ("" stands for an empty or absent user_id)
StoreUsers == {None, Alice, AliceOrBob}
\* user_id arguments of retrieval calls
QueryUsers == {None, Alice, Bob, AliceOrBob}
ThreadT == <<"t1">>
Threads == {None, ThreadT}

\* The contents, and where the embedding provider puts them: the distance of
\* two texts is the distance of their positions.
Contents == {"aisle", "aisle ", "window"}

Embed(text) ==
    CASE text = "aisle"  -> 0
      [] text = "aisle " -> 5
      [] text = "window" -> 20

Distance(v, w) == IF v - w < 0 THEN w - v ELSE v - w

DEDUP_THRESHOLD == 10
RETRIEVE_THRESHOLD == 10
TOOL_THRESHOLD == 30
DEFAULT_LIMIT == 5

---------------------------------------------------------------------------
(* The index schema and the tag filters *)

SchemaTagFields == {"memory_type", "user_id", "memory_id"}

\* A tag field can be filtered on only if the schema declares it.
FieldIndexed(f) == f \in SchemaTagFields

\* A text cut at every "|": "alice|bob" gives <<"alice", "bob">>.
RECURSIVE SplitAtBar(_)
SplitAtBar(s) ==
    IF s = <<>> THEN << <<>> >>
    ELSE LET rest == SplitAtBar(Tail(s))
         IN  IF Head(s) = Bar
             THEN << <<>> >> \o rest
             ELSE << <<Head(s)>> \o rest[1] >> \o Tail(rest)

\* The tags a raw clause @field:{s} in a filter string asks for: within the
\* braces "|" separates alternatives (the code relies on it for memory types).
RawTagSet(s) == {SplitAtBar(s)[k] : k \in 1..Len(SplitAtBar(s))} \ {<<>>}

\* '|'.join(list)
RECURSIVE JoinBar(_)
JoinBar(list) ==
    IF list = <<>> THEN <<>>
    ELSE IF Len(list) = 1 THEN <<list[1]>>
    ELSE <<list[1], Bar>> \o JoinBar(Tail(list))

\* Tag(field) == value of the filter library: the value is escaped, so the
\* clause matches the one tag equal to it; an empty value is no clause at all.
TagEquals(value, tag) == value = <<>> \/ tag = value

---------------------------------------------------------------------------
(* The vector index: range query *)

\* A clause @field:{tags} applied to the value a record holds in that field.
TagClause(field, tags, value) == FieldIndexed(field) /\ value \in tags

\* The positions in S, nearest to vector v first (ties: load order).
RECURSIVE SortByDistance(_, _, _)
SortByDistance(idx, v, S) ==
    IF S = {} THEN <<>>
    ELSE LET best == CHOOSE i \in S : \A j \in S :
                        \/ Distance(v, idx[i].embedding) < Distance(v, idx[j].embedding)
                        \/ /\ Distance(v, idx[i].embedding) = Distance(v, idx[j].embedding)
                           /\ i <= j
         IN  <<best>> \o SortByDistance(idx, v, S \ {best})

Truncate(seq, n) == IF Len(seq) <= n THEN seq ELSE SubSeq(seq, 1, n)

\* long_term_memory_index.query(VectorRangeQuery(...)): the records the
\* filter accepts (matching) within distance_threshold of the vector, by
\* ascending distance, at most num_results of them.
VectorRangeQuery(idx, v, matching, distance_threshold, num_results) ==
    Truncate(
        SortByDistance(idx, v,
            {i \in matching : Distance(v, idx[i].embedding) <= distance_threshold}),
        num_results)

---------------------------------------------------------------------------
(* memory_redis.similar_memory_exists *)

\* The records the dedup filter accepts.
DedupFilter(idx, memory_type, user_id, thread_id) ==
    {i \in 1..Len(idx) :
        /\ TagEquals(user_id, idx[i].user_id)
        /\ TagEquals(<<memory_type>>, <<idx[i].memory_type>>)
        /\ thread_id # None =>
              /\ TagClause("thread_id", {thread_id}, idx[i].thread_id)}

\* The query of the dedup check is rejected.
DedupQueryRaises(thread_id, uf) ==
    thread_id # None /\ ~FieldIndexed("thread_id") /\ uf = "error"

\* A dedup check that never finds anything.
similar_memory_exists_never(idx, content, memory_type, user_id, thread_id) == FALSE

similar_memory_exists(idx, content, memory_type, user_id, thread_id) ==
    VectorRangeQuery(idx, Embed(content),
                     DedupFilter(idx, memory_type, user_id, thread_id),
                     DEDUP_THRESHOLD, 1) # <<>>

---------------------------------------------------------------------------
(* memory_redis.store_memory *)

memory_data(content, memory_type, user_id, thread_id) ==
    [user_id     |-> IF user_id = None THEN SYSTEM_USER_ID ELSE user_id,
     content     |-> content,
     memory_type |-> memory_type,
     embedding   |-> Embed(content),
     thread_id   |-> thread_id]

\* store_memory without the early return: it loads whether or not a similar
\* memory exists.
store_memory_no_skip(idx, content, memory_type, user_id, thread_id, uf, loadOk) ==
    IF DedupQueryRaises(thread_id, uf)
    THEN [outcome |-> "raised", index |-> idx]
    ELSE IF loadOk
    THEN [outcome |-> IF similar_memory_exists(idx, content, memory_type,
                                               user_id, thread_id)
                      THEN "skipped" ELSE "stored",
          index |-> Append(idx, memory_data(content, memory_type, user_id, thread_id))]
    ELSE [outcome |-> "load_error", index |-> idx]

store_memory_partial_write(idx, content, memory_type, user_id, thread_id, uf, loadOk) ==
    IF DedupQueryRaises(thread_id, uf)
    THEN [outcome |-> "raised", index |-> idx]
    ELSE IF similar_memory_exists(idx, content, memory_type, user_id, thread_id)
    THEN [outcome |-> "skipped", index |-> idx]
    ELSE IF loadOk
    THEN [outcome |-> "stored",
          index |-> Append(idx, memory_data(content, memory_type, user_id, thread_id))]
    ELSE [outcome |-> "raised",
          index |-> Append(idx, [content |-> content])]

\* One call of store_memory run to its end on index idx: what it did
\* (outcome) and the index it leaves. loadOk: the index accepts the write.
store_memory(idx, content, memory_type, user_id, thread_id, uf, loadOk) ==
    IF DedupQueryRaises(thread_id, uf)
    THEN [outcome |-> "raised", index |-> idx]
    ELSE IF similar_memory_exists(idx, content, memory_type, user_id, thread_id)
    THEN [outcome |-> "skipped", index |-> idx]
    ELSE IF loadOk
    THEN [outcome |-> "stored",
          index |-> Append(idx, memory_data(content, memory_type, user_id, thread_id))]
    ELSE [outcome |-> "load_error", index |-> idx]

---------------------------------------------------------------------------
(* memory_redis.retrieve_memories *)

\* The memory_type argument: absent, one MemoryType, or a list of them.
NoType == [kind |-> "none", v |-> <<>>]
OneType(t) == [kind |-> "single", v |-> <<t>>]
TypeList(l) == [kind |-> "list", v |-> l]

\* "if memory_type:" - an absent type and an empty list add no clause.
TypeGiven(mt) == mt.kind = "single" \/ (mt.kind = "list" /\ mt.v # <<>>)

\* The text between the braces of the @user_id clause.
UserClauseText(user_id) == IF user_id = None THEN SYSTEM_USER_ID ELSE user_id

\* A filter that loses its memory_type clause.
RetrieveFilterNoType(idx, mt, user_id, thread_id) ==
    {i \in 1..Len(idx) :
        /\ TagClause("user_id", RawTagSet(UserClauseText(user_id)), idx[i].user_id)
        /\ thread_id # None =>
              TagClause("thread_id", RawTagSet(thread_id), idx[i].thread_id)}

\* The records the filter string of retrieve_memories accepts: its clauses
\* are joined by a space, which the index reads as AND.
RetrieveFilter(idx, mt, user_id, thread_id) ==
    {i \in 1..Len(idx) :
        /\ TagClause("user_id", RawTagSet(UserClauseText(user_id)), idx[i].user_id)
        /\ TypeGiven(mt) =>
              TagClause("memory_type", RawTagSet(IF mt.kind = "list" THEN JoinBar(mt.v)
                                                   ELSE mt.v),
                        <<idx[i].memory_type>>)
        /\ thread_id # None =>
              TagClause("thread_id", RawTagSet(thread_id), idx[i].thread_id)}

\* One call of retrieve_memories: outcome, the num_results it asked the index
\* for, and the records returned (positions in the index, in result order).
\* StoredMemory(id=doc["id"], ..., memory_type=MemoryType(doc["memory_type"]),
\* content=doc["content"], ...) succeeds: the document has its content and a
\* memory_type of the enum.
Parses(doc) == "content" \in DOMAIN doc /\ doc.memory_type \in MemoryType

\* A parse loop that gives up at the first document that fails to parse.
RECURSIVE ParseResultsAbort(_, _)
ParseResultsAbort(idx, results) ==
    IF results = <<>> \/ ~Parses(idx[Head(results)]) THEN <<>>
    ELSE <<Head(results)>> \o ParseResultsAbort(idx, Tail(results))

\* The loop over the results: a document that fails to parse is skipped.
RECURSIVE ParseResults(_, _)
ParseResults(idx, results) ==
    IF results = <<>> THEN <<>>
    ELSE IF Parses(idx[Head(results)])
    THEN <<Head(results)>> \o ParseResults(idx, Tail(results))
    ELSE ParseResults(idx, Tail(results))

\* hits: the memories returned; results: what the index returned.
retrieve_memories(idx, query, mt, user_id, thread_id, distance_threshold, limit, uf) ==
    IF thread_id # None /\ ~FieldIndexed("thread_id") /\ uf = "error"
    THEN [outcome |-> "raised", num_results |-> limit, hits |-> <<>>,
          results |-> <<>>]
    ELSE LET results == VectorRangeQuery(idx, Embed(query),
                                         RetrieveFilter(idx, mt, user_id, thread_id),
                                         distance_threshold, limit)
         IN  [outcome |-> "ok", num_results |-> limit,
              hits |-> ParseResults(idx, results), results |-> results]

---------------------------------------------------------------------------
(* The per-call config of the tools (agents.main, store_tool, retrieve_tool) *)

\* config.get(key, default)
ConfigGet(config, key, default) ==
    IF key \in DOMAIN config THEN config[key] ELSE default

\* What the session layer supplies: nothing, or the user and thread of main.
NoSession == [present |-> FALSE, user_id |-> None, thread_id |-> None]
Sessions ==
    {NoSession} \cup
    {[present |-> TRUE, user_id |-> u, thread_id |-> h] :
        u \in {Alice, Bob}, h \in {ThreadT}}

\* RunnableConfig(configurable={"thread_id": thread_id, "user_id": user_id})
\* in agents.main; "config = config or RunnableConfig()", no key at all,
\* otherwise.
ToolConfig(session) ==
    IF session.present
    THEN [configurable |-> [thread_id |-> session.thread_id,
                            user_id |-> session.user_id]]
    ELSE <<>>

ToolUserId(config) == ConfigGet(config, "user_id", SYSTEM_USER_ID)
ToolThreadId(config) == ConfigGet(config, "thread_id", None)

\* store_memory_tool: the scope it takes from the config, the store_memory
\* call, and the text it returns.
store_memory_tool(idx, content, memory_type, config, uf, loadOk) ==
    LET r == store_memory(idx, content, memory_type,
                          ToolUserId(config), ToolThreadId(config), uf, loadOk)
    IN  [outcome   |-> r.outcome,
         index     |-> r.index,
         user_id   |-> ToolUserId(config),
         thread_id |-> ToolThreadId(config),
         text      |-> IF r.outcome = "raised"
                       THEN "Error storing memory"
                       ELSE "Successfully stored"]

\* retrieve_memories_tool: user from the config, no thread, threshold 0.3.
retrieve_memories_tool(idx, query, type_list, limit, config, uf) ==
    LET r == retrieve_memories(idx, query, TypeList(type_list), ToolUserId(config),
                               None, TOOL_THRESHOLD, limit, uf)
    IN  [outcome     |-> r.outcome,
         num_results |-> r.num_results,
         hits        |-> r.hits,
         user_id     |-> ToolUserId(config),
         text        |-> IF r.outcome = "raised" THEN "Error retrieving memories"
                         ELSE IF r.hits = <<>> THEN "No relevant memories found."
                         ELSE "Long-term memories:"]

---------------------------------------------------------------------------
(* State *)

Procs == {"p1", "p2"}

NoArgs == [content |-> "", memory_type |-> "", user_id |-> None, thread_id |-> None]

\* The record of one step: fields an operation does not use keep these values.
NoEvent ==
    [op |-> "init", outcome |-> "", text |-> "",
     user_id |-> None, thread_id |-> None,
     session |-> NoSession, limit |-> 0, num_results |-> 0, hits |-> <<>>,
     memory_id |-> 0, delete_called |-> FALSE, after_delete |-> 0,
     calls |-> <<>>, verify_raised |-> FALSE,
     tool |-> "", response |-> <<>>, raised_code |-> "", results |-> <<>>]

MAX_LIMIT == 100

TypeArgs ==
    {NoType, OneType(EPISODIC), TypeList(<<SEMANTIC>>),
     TypeList(<<EPISODIC, SEMANTIC>>)}

\* The index answers a clause on an undeclared field only when there is one.
UnknownFieldChoices(thread_id) ==
    IF thread_id = None THEN {"no_match"} ELSE {"no_match", "error"}

\* ConfigManager.DEFAULT_CONFIG: its top level refers to one dict per
\* section; these are the items of those dicts, as <<key, value>> pairs
\* (mem0: the providers of its llm and embedder parts).
DEFAULT_CONFIG ==
    [redis  |-> {<<"url", "redis://localhost:6379">>,
                 <<"collection_name", "mcp_memories">>},
     mem0   |-> {<<"llm", "ollama">>, <<"embedder", "ollama">>},
     server |-> {<<"name", "memory-mcp">>, <<"version", "1.0.0">>,
                 <<"log_level", "INFO">>}]


\* What a top-level entry of a configuration dict refers to: the section
\* dict of DEFAULT_CONFIG itself (a shallow copy keeps the reference), or a
\* value of its own.
Shared == [shared |-> TRUE, value |-> [kind |-> "absent", items |-> {}]]
Own(value) == [shared |-> FALSE, value |-> value]

\* DEFAULT_CONFIG.copy()
ShallowCopy == [redis |-> Shared, mem0 |-> Shared, server |-> Shared]

Init ==
    /\ index = <<>>
    /\ pc = [p \in Procs |-> "idle"]
    /\ args = [p \in Procs |-> NoArgs]
    /\ overlap = FALSE
    /\ last = NoEvent
    /\ mem0 = {}
    /\ initialized = FALSE
    /\ next_id = 1
    /\ memory_manager = FALSE
    /\ server_initialized = FALSE
    /\ default_sections = DEFAULT_CONFIG
    /\ _config = ShallowCopy
    /\ run_pc = "none"
    /\ run_exit = ""
    /\ runner_pc = "idle"
    /\ shutdown_event = FALSE
    /\ shutdown_calls = 0
    /\ messages = <<>>
    /\ op_pc = [p \in Procs |-> "idle"]

---------------------------------------------------------------------------
(* One caller at a time: every call runs to its end in one step *)

StoreMemory ==
    \E content \in Contents, memory_type \in MemoryType,
       user_id \in StoreUsers, thread_id \in Threads, loadOk \in BOOLEAN :
      \E uf \in UnknownFieldChoices(thread_id) :
        \E r \in {store_memory(index, content, memory_type, user_id, thread_id,
                               uf, loadOk)} :
            /\ Len(r.index) <= MaxRecords
            /\ index' = r.index
            /\ last' = [NoEvent EXCEPT !.op = "store_memory",
                                       !.outcome = r.outcome,
                                       !.user_id = user_id,
                                       !.thread_id = thread_id]
            /\ UNCHANGED <<pc, args, overlap, mgr_vars, server_vars, config_vars, task_vars>>

RetrieveMemories ==
    \E query \in Contents, mt \in TypeArgs, user_id \in QueryUsers,
       thread_id \in Threads, limit \in {1, DEFAULT_LIMIT} :
      \E uf \in UnknownFieldChoices(thread_id) :
        \E r \in {retrieve_memories(index, query, mt, user_id, thread_id,
                                    RETRIEVE_THRESHOLD, limit, uf)} :
            /\ last' = [NoEvent EXCEPT !.op = "retrieve_memories",
                                       !.outcome = r.outcome,
                                       !.hits = r.hits]
            /\ UNCHANGED <<index, pc, args, overlap, mgr_vars, server_vars, config_vars, task_vars>>

Next ==
    \/ StoreMemory
    \/ RetrieveMemories

Spec == Init /\ [][Next]_vars

---------------------------------------------------------------------------
(* The agent tools, called by the session layer *)

StoreMemoryTool ==
    \E content \in Contents, memory_type \in MemoryType, session \in Sessions,
       loadOk \in BOOLEAN :
      \E uf \in UnknownFieldChoices(ToolThreadId(ToolConfig(session))) :
        \E r \in {store_memory_tool(index, content, memory_type,
                                    ToolConfig(session), uf, loadOk)} :
            /\ Len(r.index) <= MaxRecords
            /\ index' = r.index
            /\ last' = [NoEvent EXCEPT !.op = "store_memory_tool",
                                       !.outcome = r.outcome,
                                       !.text = r.text,
                                       !.user_id = r.user_id,
                                       !.thread_id = r.thread_id,
                                       !.session = session]
            /\ UNCHANGED <<pc, args, overlap, mgr_vars, server_vars, config_vars, task_vars>>

RetrieveMemoriesTool ==
    \E query \in Contents, type_list \in {<<EPISODIC>>, <<EPISODIC, SEMANTIC>>},
       limit \in {1, DEFAULT_LIMIT, MAX_LIMIT + 1},
       session \in Sessions :
        \E r \in {retrieve_memories_tool(index, query, type_list, limit,
                                         ToolConfig(session), "no_match")} :
            /\ last' = [NoEvent EXCEPT !.op = "retrieve_memories_tool",
                                       !.outcome = r.outcome,
                                       !.text = r.text,
                                       !.user_id = r.user_id,
                                       !.session = session,
                                       !.limit = limit,
                                       !.num_results = r.num_results,
                                       !.hits = r.hits]
            /\ UNCHANGED <<index, pc, args, overlap, mgr_vars, server_vars, config_vars, task_vars>>

NextTools ==
    \/ StoreMemoryTool
    \/ RetrieveMemoriesTool

SpecTools == Init /\ [][NextTools]_vars

---------------------------------------------------------------------------
(* Concurrent callers of store_memory: the dedup query and the load are two *)
(* separate requests to the index, and other callers run in between.        *)

\* store_memory up to the end of its dedup check (lines 132-139).
StoreCheck(p) ==
    /\ pc[p] = "idle"
    /\ \E content \in {"aisle", "aisle "}, memory_type \in MemoryType,
          user_id \in {Alice} :
        IF similar_memory_exists(index, content, memory_type, user_id, None)
        THEN /\ last' = [NoEvent EXCEPT !.op = "store_check",
                                        !.outcome = "skipped",
                                        !.user_id = user_id]
             /\ UNCHANGED <<index, pc, args, overlap, mgr_vars, server_vars, config_vars, task_vars>>
        ELSE /\ pc' = [pc EXCEPT ![p] = "checked"]
             /\ args' = [args EXCEPT ![p] =
                            [content |-> content, memory_type |-> memory_type,
                             user_id |-> user_id, thread_id |-> None]]
             /\ overlap' = (overlap \/ \E q \in Procs \ {p} : pc[q] = "checked")
             /\ last' = [NoEvent EXCEPT !.op = "store_check",
                                        !.outcome = "passed",
                                        !.user_id = user_id]
             /\ UNCHANGED <<index, mgr_vars, server_vars, config_vars, task_vars>>

\* A load that repeats the dedup check in one step with the write, as a
\* per-scope lock or a uniqueness constraint would.
StoreLoadRechecked(p) ==
    /\ pc[p] = "checked"
    /\ \E loadOk \in BOOLEAN :
        LET similar == similar_memory_exists(index, args[p].content,
                           args[p].memory_type, args[p].user_id, args[p].thread_id)
            written == loadOk /\ ~similar
        IN  /\ written => Len(index) < MaxRecords
            /\ index' = IF written
                        THEN Append(index, memory_data(args[p].content,
                                                       args[p].memory_type,
                                                       args[p].user_id,
                                                       args[p].thread_id))
                        ELSE index
            /\ last' = [NoEvent EXCEPT !.op = "store_load",
                                       !.outcome = IF similar THEN "skipped"
                                                   ELSE IF loadOk THEN "stored"
                                                   ELSE "load_error",
                                       !.user_id = args[p].user_id]
    /\ pc' = [pc EXCEPT ![p] = "idle"]
    /\ args' = [args EXCEPT ![p] = NoArgs]
    /\ UNCHANGED <<overlap, mgr_vars, server_vars, config_vars, task_vars>>

\* store_memory from the embedding to its end (lines 141-160).
StoreLoad(p) ==
    /\ pc[p] = "checked"
    /\ \E loadOk \in BOOLEAN :
        /\ loadOk => Len(index) < MaxRecords
        /\ index' = IF loadOk
                    THEN Append(index, memory_data(args[p].content,
                                                   args[p].memory_type,
                                                   args[p].user_id,
                                                   args[p].thread_id))
                    ELSE index
        /\ last' = [NoEvent EXCEPT !.op = "store_load",
                                   !.outcome = IF loadOk THEN "stored"
                                               ELSE "load_error",
                                   !.user_id = args[p].user_id]
    /\ pc' = [pc EXCEPT ![p] = "idle"]
    /\ args' = [args EXCEPT ![p] = NoArgs]
    /\ UNCHANGED <<overlap, mgr_vars, server_vars, config_vars, task_vars>>

NextRace == \E p \in Procs : StoreCheck(p) \/ StoreLoad(p)

SpecRace == Init /\ [][NextRace]_vars

---------------------------------------------------------------------------
(* Documents of other writers in the index, and their retrieval *)

\* Documents another writer of the index loads: well-formed ones, ones with
\* a memory_type outside the enum, and ones without content.
LoadForeign ==
    \E doc \in
        {memory_data(content, memory_type, Alice, None) :
            content \in {"aisle", "aisle "}, memory_type \in {EPISODIC, "procedural"}}
        \cup {[user_id |-> Alice, memory_type |-> EPISODIC,
                embedding |-> Embed(content), thread_id |-> None] :
                    content \in {"aisle", "aisle "}} :
        /\ Len(index) < MaxRecords + 1
        /\ index' = Append(index, doc)
        /\ last' = [NoEvent EXCEPT !.op = "load"]
        /\ UNCHANGED <<pc, args, overlap, mgr_vars, server_vars, config_vars, task_vars>>

RetrieveParsed ==
    \E mt \in {NoType, OneType(EPISODIC)}, limit \in {1, 2, DEFAULT_LIMIT} :
        \E r \in {retrieve_memories(index, "aisle", mt, Alice, None,
                                    RETRIEVE_THRESHOLD, limit, "no_match")} :
            /\ last' = [NoEvent EXCEPT !.op = "retrieve_memories",
                                       !.outcome = r.outcome,
                                       !.limit = limit,
                                       !.hits = r.hits,
                                       !.results = r.results]
            /\ UNCHANGED <<index, pc, args, overlap, mgr_vars, server_vars, config_vars, task_vars>>

NextParse == LoadForeign \/ RetrieveParsed

SpecParse == Init /\ [][NextParse]_vars

---------------------------------------------------------------------------
(* memory_manager.MemoryManager over mem0 *)

\* A whitespace-only text, and a text longer than the content limit.
Blank == " "
LongContent == "aisle aisle ..."
MAX_CONTENT_LENGTH == 10000
MAX_METADATA_SIZE == 1000

\* len(text) and text.strip() for the texts the operations are called with.
StrLen(text) ==
    CASE text = "" -> 0
      [] text = Blank -> 1
      [] text = LongContent -> MAX_CONTENT_LENGTH + 1
      [] OTHER -> 6
Strip(text) == IF text = Blank THEN "" ELSE text

MgrUsers == {"alice", "bob", "", Blank}
MgrContents == {"aisle", "window", "", Blank, LongContent}

\* The metadata argument: None, or a value described by what the validation
\* reads of it: whether it is a dict and the length of its json.dumps.
NoMetadata == [given |-> FALSE, is_dict |-> FALSE, json_len |-> 0]
MgrMetadata ==
    {NoMetadata,
     [given |-> TRUE, is_dict |-> TRUE, json_len |-> 2],
     [given |-> TRUE, is_dict |-> TRUE, json_len |-> MAX_METADATA_SIZE + 1],
     [given |-> TRUE, is_dict |-> FALSE, json_len |-> 2]}

\* memory ids are numbers here; 0 stands for the empty string
MemoryIds == 0..MaxMemories

\* What the backing store does during one call:
\*   ping    validate_connection before the operation succeeds
\*   reconn  the initialize() of reconnect() succeeds
\*   verify  the get_all of the ownership verification: "ok" or "raise"
\*   call    the mem0 call of the operation: "ok", "raise" (some error),
\*           "raise_not_found" (an error whose text holds "not found") or
\*           "false" (delete only: it returns False or {"deleted": False})
\*   ping2   validate_connection in the except branch succeeds
\* Only the combinations that can differ in effect are kept.
Envs ==
    {e \in [ping : BOOLEAN, reconn : BOOLEAN, verify : {"ok", "raise"},
            call : {"ok", "raise", "raise_not_found", "false"},
            ping2 : BOOLEAN] :
        /\ e.ping => e.reconn
        /\ e.call \in {"ok", "false"} => e.ping2
        /\ ~e.reconn => (e.call = "ok" /\ e.verify = "ok")}

EnvsNoVerify == {e \in Envs : e.verify = "ok" /\ e.call # "false"}

_validate_user_id(user_id) == user_id # "" /\ StrLen(Strip(user_id)) # 0

\* A content check that only refuses the empty text.
_validate_content_nonempty(content) == content # ""

_validate_content(content) ==
    /\ content # ""
    /\ StrLen(Strip(content)) # 0
    /\ StrLen(content) <= MAX_CONTENT_LENGTH

_validate_metadata(metadata) ==
    metadata.given => (metadata.is_dict /\ metadata.json_len <= MAX_METADATA_SIZE)

Range(seq) == {seq[k] : k \in 1..Len(seq)}
Count(seq, x) == Cardinality({k \in 1..Len(seq) : seq[k] = x})

\* "if not await self.validate_connection(): await self.reconnect()"
\* ok: the operation goes on; initialized: _initialized afterwards; calls:
\* what was asked of the backing store, in order.
CheckConnectionTwice(env) ==
    IF env.ping THEN [ok |-> TRUE, initialized |-> TRUE, calls |-> <<"ping_ok">>]
    ELSE [ok |-> env.reconn, initialized |-> env.reconn,
          calls |-> <<"ping_failed", "reconnect", "reconnect">>]

CheckConnection(env) ==
    IF env.ping THEN [ok |-> TRUE, initialized |-> TRUE, calls |-> <<"ping_ok">>]
    ELSE IF env.reconn
    THEN [ok |-> TRUE, initialized |-> TRUE, calls |-> <<"ping_failed", "reconnect">>]
    ELSE [ok |-> FALSE, initialized |-> FALSE, calls |-> <<"ping_failed", "reconnect">>]

add_memory(m0, init, nid, content, user_id, metadata, env) ==
    LET c == CheckConnection(env).calls
        same(outcome, i, calls) ==
            [outcome |-> outcome, memory_id |-> 0, mem0 |-> m0,
             initialized |-> i, next_id |-> nid, calls |-> calls]
    IN  IF ~init THEN same("MemoryManagerError", init, <<>>)
        ELSE IF \/ ~_validate_content(content)
                \/ ~_validate_user_id(user_id)
                \/ ~_validate_metadata(metadata)
        THEN same("ValidationError", init, <<>>)
        ELSE IF ~CheckConnection(env).ok THEN same("ConnectionError", FALSE, c)
        ELSE IF env.call = "ok"
        THEN [outcome |-> "ok", memory_id |-> nid,
              mem0 |-> m0 \cup {[id |-> nid, user_id |-> user_id,
                                 content |-> content]},
              initialized |-> TRUE, next_id |-> nid + 1,
              calls |-> c \o <<"add">>]
        ELSE IF ~env.ping2
        THEN same("ConnectionError", TRUE, c \o <<"add", "ping_failed">>)
        ELSE same("MemoryManagerError", TRUE, c \o <<"add", "ping_ok">>)

\* The ids in S, nearest to vector v first (ties: by id).
RECURSIVE SortMemories(_, _)
SortMemories(v, S) ==
    IF S = {} THEN <<>>
    ELSE LET best == CHOOSE r \in S : \A q \in S :
                        \/ Distance(v, Embed(r.content)) < Distance(v, Embed(q.content))
                        \/ /\ Distance(v, Embed(r.content)) = Distance(v, Embed(q.content))
                           /\ r.id <= q.id
         IN  <<best.id>> \o SortMemories(v, S \ {best})

\* self._memory.search(query, user_id, limit)
Mem0Search(m0, query, user_id, limit) ==
    Truncate(SortMemories(Embed(query), {r \in m0 : r.user_id = user_id}), limit)

\* The limit get_memories passes on (lines 317-321).
CappedLimit(limit) == IF limit > MAX_LIMIT THEN MAX_LIMIT ELSE limit

get_memories(m0, init, query, user_id, limit, env) ==
    LET c == CheckConnection(env).calls
        res(outcome, i, ids, calls) ==
            [outcome |-> outcome, initialized |-> i, hits |-> ids,
             num_results |-> CappedLimit(limit), calls |-> calls]
    IN  IF ~init THEN res("MemoryManagerError", init, <<>>, <<>>)
        ELSE IF ~_validate_user_id(user_id) \/ query = "" \/ limit <= 0
        THEN res("ValidationError", init, <<>>, <<>>)
        ELSE IF ~CheckConnection(env).ok
        THEN res("ConnectionError", FALSE, <<>>, c)
        ELSE IF env.call = "ok"
        THEN res("ok", TRUE, Mem0Search(m0, query, user_id, CappedLimit(limit)),
                 c \o <<"search">>)
        ELSE IF ~env.ping2
        THEN res("ConnectionError", TRUE, <<>>, c \o <<"search", "ping_failed">>)
        ELSE IF env.call = "raise_not_found"
        THEN res("ok", TRUE, <<>>, c \o <<"search", "ping_ok">>)
        ELSE res("MemoryManagerError", TRUE, <<>>, c \o <<"search", "ping_ok">>)

\* An ownership verification that fails closed.
_verify_memory_ownership_closed(m0, memory_id, user_id, env) ==
    /\ env.verify # "raise"
    /\ \E r \in m0 : r.id = memory_id /\ r.user_id = user_id

\* An ownership verification that finds every memory.
_verify_memory_ownership_always(m0, memory_id, user_id, env) == TRUE

\* _verify_memory_ownership: a read that fails counts as "owned".
_verify_memory_ownership(m0, memory_id, user_id, env) ==
    IF env.verify = "raise" THEN TRUE
    ELSE \E r \in m0 : r.id = memory_id /\ r.user_id = user_id

Mem0DeleteKeeps(m0, memory_id) == m0

\* self._memory.delete(memory_id)
Mem0Delete(m0, memory_id) == {r \in m0 : r.id # memory_id}

delete_memory(m0, init, memory_id, user_id, env) ==
    LET c == CheckConnection(env).calls \o <<"get_all">>
        res(outcome, i, called, m, calls) ==
            [outcome |-> outcome, initialized |-> i, delete_called |-> called,
             mem0 |-> m, calls |-> calls]
    IN  IF ~init THEN res("MemoryManagerError", init, FALSE, m0, <<>>)
        ELSE IF ~_validate_user_id(user_id) \/ memory_id = 0
        THEN res("ValidationError", init, FALSE, m0, <<>>)
        ELSE IF ~CheckConnection(env).ok
        THEN res("ConnectionError", FALSE, FALSE, m0, CheckConnection(env).calls)
        ELSE IF ~_verify_memory_ownership(m0, memory_id, user_id, env)
        THEN res("False", TRUE, FALSE, m0, c)
        ELSE IF env.call = "ok"
        THEN res("True", TRUE, TRUE, Mem0Delete(m0, memory_id), c \o <<"delete">>)
        ELSE IF env.call = "false"
        THEN res("False", TRUE, TRUE, m0, c \o <<"delete">>)
        ELSE IF ~env.ping2
        THEN res("ConnectionError", TRUE, TRUE, m0, c \o <<"delete", "ping_failed">>)
        ELSE IF env.call = "raise_not_found"
        THEN res("False", TRUE, TRUE, m0, c \o <<"delete", "ping_ok">>)
        ELSE res("MemoryManagerError", TRUE, TRUE, m0, c \o <<"delete", "ping_ok">>)

\* MemoryManager.initialize()
Initialize ==
    \E ok \in BOOLEAN :
        /\ initialized' = (initialized \/ ok)
        /\ last' = [NoEvent EXCEPT !.op = "initialize",
                                   !.outcome = IF initialized \/ ok THEN "ok"
                                               ELSE "ConnectionError"]
        /\ UNCHANGED <<mem0, next_id, redis_vars, server_vars, config_vars, task_vars>>

AddMemory ==
    \E content \in MgrContents, user_id \in MgrUsers, metadata \in MgrMetadata,
       env \in EnvsNoVerify :
        \E r \in {add_memory(mem0, initialized, next_id, content, user_id,
                             metadata, env)} :
            /\ r.next_id <= MaxMemories + 1
            /\ mem0' = r.mem0
            /\ initialized' = r.initialized
            /\ next_id' = r.next_id
            /\ last' = [NoEvent EXCEPT !.op = "add_memory",
                                       !.outcome = r.outcome,
                                       !.memory_id = r.memory_id,
                                       !.calls = r.calls]
            /\ UNCHANGED <<redis_vars, server_vars, config_vars, task_vars>>

GetMemories ==
    \E query \in {"aisle", "window", ""}, user_id \in MgrUsers, limit \in {0, 1, MAX_LIMIT + 1},
       env \in EnvsNoVerify :
        \E r \in {get_memories(mem0, initialized, query, user_id, limit, env)} :
            /\ initialized' = r.initialized
            /\ last' = [NoEvent EXCEPT
                          !.op = "get_memories",
                          !.outcome = r.outcome,
                          !.hits = r.hits,
                          !.calls = r.calls,
                          !.after_delete =
                              IF /\ last.op = "delete_memory"
                                 /\ last.outcome = "True"
                                 /\ last.user_id = user_id
                              THEN last.memory_id ELSE 0]
            /\ UNCHANGED <<mem0, next_id, redis_vars, server_vars, config_vars, task_vars>>

DeleteMemory ==
    \E memory_id \in MemoryIds, user_id \in MgrUsers, env \in Envs :
        \E r \in {delete_memory(mem0, initialized, memory_id, user_id, env)} :
            /\ mem0' = r.mem0
            /\ initialized' = r.initialized
            /\ last' = [NoEvent EXCEPT !.op = "delete_memory",
                                       !.outcome = r.outcome,
                                       !.memory_id = memory_id,
                                       !.user_id = user_id,
                                       !.delete_called = r.delete_called,
                                       !.calls = r.calls,
                                       !.verify_raised =
                                           ("get_all" \in Range(r.calls)
                                            /\ env.verify = "raise")]
            /\ UNCHANGED <<next_id, redis_vars, server_vars, config_vars, task_vars>>

NextMgr ==
    \/ Initialize
    \/ AddMemory
    \/ GetMemories
    \/ DeleteMemory

SpecMgr == Init /\ [][NextMgr]_vars

---------------------------------------------------------------------------
(* error_handler: error codes, exceptions, format_error_response *)

ErrorCode ==
    {"CONFIG_INVALID", "CONFIG_MISSING", "CONFIG_VALIDATION_FAILED",
     "REDIS_CONNECTION_FAILED", "REDIS_CONNECTION_LOST", "REDIS_TIMEOUT",
     "MEMORY_NOT_FOUND", "MEMORY_ADD_FAILED", "MEMORY_SEARCH_FAILED",
     "MEMORY_DELETE_FAILED",
     "INVALID_INPUT", "INVALID_USER_ID", "INVALID_CONTENT", "INVALID_METADATA",
     "INVALID_MEMORY_ID",
     "SERVER_NOT_INITIALIZED", "SERVER_INITIALIZATION_FAILED", "INTERNAL_ERROR",
     "TOOL_NOT_FOUND", "TOOL_EXECUTION_FAILED", "MCP_PROTOCOL_ERROR"}

\* Exceptions. message: the pieces of the message text; details: the keys of
\* the details dict; keywords: the words _classify_error looks for that occur
\* in the type name or the message of an exception that is no MCPError.
NoError == [is_mcp |-> FALSE, code |-> "", message |-> <<>>, details |-> {},
            keywords |-> {}]
MCPError(code, message) ==
    [is_mcp |-> TRUE, code |-> code, message |-> message, details |-> {},
     keywords |-> {}]
ServerValidationError(message, field) ==
    [is_mcp |-> TRUE, code |-> "INVALID_INPUT", message |-> message,
     details |-> {"field"}, keywords |-> {}]
MemoryError(code, message, details) ==
    [is_mcp |-> TRUE, code |-> code, message |-> message, details |-> details,
     keywords |-> {}]

_classify_error(error) ==
    IF "connection" \in error.keywords THEN "REDIS_CONNECTION_FAILED"
    ELSE IF "timeout" \in error.keywords THEN "REDIS_TIMEOUT"
    ELSE IF error.keywords \cap {"validation", "invalid"} # {} THEN "INVALID_INPUT"
    ELSE IF "not found" \in error.keywords THEN "MEMORY_NOT_FOUND"
    ELSE "INTERNAL_ERROR"

\* The text of traceback.format_exc().
TRACEBACK == "Traceback (most recent call last):"

\* The pieces of the response text, in order.
_format_mcp_error_traceback(error, include_traceback) ==
    <<"Error [", error.code, "]: ">> \o error.message \o <<TRACEBACK>>

_format_mcp_error(error, include_traceback) ==
    <<"Error [", error.code, "]: ">> \o error.message
        \o (IF error.details # {} THEN <<"Details: {...}">> ELSE <<>>)

_format_generic_error(error, include_traceback) ==
    <<"Error [", _classify_error(error), "]: ">>
        \o (IF error.message = <<>> THEN <<"An unexpected error occurred">>
            ELSE error.message)

format_error_response(error, include_traceback) ==
    IF error.is_mcp THEN _format_mcp_error(error, include_traceback)
    ELSE _format_generic_error(error, include_traceback)

---------------------------------------------------------------------------
(* memory_mcp_server.MemoryMCPServer: tool calls *)

\* Argument values, by Python type. Missing: the key is not in the map.
\* s: the text of a string (memory ids, which the model numbers, are in n);
\* n: the number of an int.
Missing == [kind |-> "missing", s |-> "", n |-> 0]
Str(s) == [kind |-> "str", s |-> s, n |-> 0]
Num(n) == [kind |-> "int", s |-> "", n |-> n]

\* The arguments of a call (is_map FALSE: a value that is no map).
ArgMap(content, user_id, metadata, query, limit, memory_id) ==
    [is_map |-> TRUE, content |-> content, user_id |-> user_id,
     metadata |-> metadata, query |-> query, limit |-> limit,
     memory_id |-> memory_id]

GET_MEMORY_DEFAULT_LIMIT == 10

\* What a handler hands back to handle_call_tool: the exception it raised
\* (error, NoError when it returned), the response text it returned, and
\* the MemoryManager's state afterwards.
HandlerRaise(error, m0, init, nid) ==
    [error |-> error, response |-> <<>>, mem0 |-> m0, initialized |-> init,
     next_id |-> nid, hits |-> <<>>, calls |-> <<>>]
HandlerReturn(response, m0, init, nid, hits, calls) ==
    [error |-> NoError, response |-> response, mem0 |-> m0, initialized |-> init,
     next_id |-> nid, hits |-> hits, calls |-> calls]

ManagerErrors == {"MemoryManagerError", "ValidationError", "ConnectionError"}

\* An add_memory handler that looks at the memory manager before it looks
\* at the arguments.
_handle_add_memory_manager_first(arguments, mm, m0, init, nid, env) ==
    HandlerRaise(MCPError("SERVER_NOT_INITIALIZED", <<"Memory manager not initialized">>),
                 m0, init, nid)

_handle_add_memory(arguments, mm, m0, init, nid, env) ==
    IF arguments.content.kind = "missing"
    THEN HandlerRaise(ServerValidationError(<<"'content' parameter is required">>, "content"), m0, init, nid)
    ELSE IF arguments.user_id.kind = "missing"
    THEN HandlerRaise(ServerValidationError(<<"'user_id' parameter is required">>, "user_id"), m0, init, nid)
    ELSE IF arguments.content.kind # "str"
    THEN HandlerRaise(ServerValidationError(<<"'content' must be a string">>, "content"), m0, init, nid)
    ELSE IF arguments.user_id.kind # "str"
    THEN HandlerRaise(ServerValidationError(<<"'user_id' must be a string">>, "user_id"), m0, init, nid)
    ELSE IF arguments.metadata.kind \notin {"missing", "dict"}
    THEN HandlerRaise(ServerValidationError(<<"'metadata' must be a dictionary">>, "metadata"), m0, init, nid)
    ELSE IF ~mm
    THEN HandlerRaise(MCPError("SERVER_NOT_INITIALIZED", <<"Memory manager not initialized">>), m0, init, nid)
    ELSE LET r == add_memory(m0, init, nid, arguments.content.s, arguments.user_id.s,
                             IF arguments.metadata.kind = "missing"
                             THEN NoMetadata
                             ELSE [given |-> TRUE,
                                   is_dict |-> arguments.metadata.kind = "dict",
                                   json_len |-> arguments.metadata.n],
                             env)
         IN  IF r.outcome \in ManagerErrors
             THEN [HandlerRaise(MemoryError("MEMORY_ADD_FAILED",
                                            <<"Failed to add memory: ", r.outcome>>,
                                            {"user_id"}),
                                r.mem0, r.initialized, r.next_id)
                   EXCEPT !.calls = r.calls]
             ELSE HandlerReturn(<<"Memory added successfully with ID: ", ToString(r.memory_id)>>,
                                r.mem0, r.initialized, r.next_id, <<>>, r.calls)

_handle_get_memory(arguments, mm, m0, init, nid, env) ==
    IF arguments.query.kind = "missing"
    THEN HandlerRaise(ServerValidationError(<<"'query' parameter is required">>, "query"), m0, init, nid)
    ELSE IF arguments.user_id.kind = "missing"
    THEN HandlerRaise(ServerValidationError(<<"'user_id' parameter is required">>, "user_id"), m0, init, nid)
    ELSE IF arguments.query.kind # "str"
    THEN HandlerRaise(ServerValidationError(<<"'query' must be a string">>, "query"), m0, init, nid)
    ELSE IF arguments.user_id.kind # "str"
    THEN HandlerRaise(ServerValidationError(<<"'user_id' must be a string">>, "user_id"), m0, init, nid)
    ELSE IF arguments.limit.kind \notin {"missing", "int"}
    THEN HandlerRaise(ServerValidationError(<<"'limit' must be an integer">>, "limit"), m0, init, nid)
    ELSE IF ~mm
    THEN HandlerRaise(MCPError("SERVER_NOT_INITIALIZED", <<"Memory manager not initialized">>), m0, init, nid)
    ELSE LET limit == IF arguments.limit.kind = "missing"
                      THEN GET_MEMORY_DEFAULT_LIMIT ELSE arguments.limit.n
             r == get_memories(m0, init, arguments.query.s, arguments.user_id.s,
                               limit, env)
         IN  IF r.outcome \in ManagerErrors
             THEN [HandlerRaise(MemoryError("MEMORY_SEARCH_FAILED",
                                            <<"Failed to search memories: ", r.outcome>>,
                                            {"user_id"}),
                                m0, r.initialized, nid)
                   EXCEPT !.calls = r.calls]
             ELSE IF r.hits = <<>>
             THEN HandlerReturn(<<"No memories found matching the query">>,
                                m0, r.initialized, nid, r.hits, r.calls)
             ELSE HandlerReturn(<<"Found ", ToString(Len(r.hits)), " memory(ies):">>,
                                m0, r.initialized, nid, r.hits, r.calls)

_handle_delete_memory(arguments, mm, m0, init, nid, env) ==
    IF arguments.memory_id.kind = "missing"
    THEN HandlerRaise(ServerValidationError(<<"'memory_id' parameter is required">>, "memory_id"), m0, init, nid)
    ELSE IF arguments.user_id.kind = "missing"
    THEN HandlerRaise(ServerValidationError(<<"'user_id' parameter is required">>, "user_id"), m0, init, nid)
    ELSE IF arguments.memory_id.kind # "str"
    THEN HandlerRaise(ServerValidationError(<<"'memory_id' must be a string">>, "memory_id"), m0, init, nid)
    ELSE IF arguments.user_id.kind # "str"
    THEN HandlerRaise(ServerValidationError(<<"'user_id' must be a string">>, "user_id"), m0, init, nid)
    ELSE IF ~mm
    THEN HandlerRaise(MCPError("SERVER_NOT_INITIALIZED", <<"Memory manager not initialized">>), m0, init, nid)
    ELSE LET r == delete_memory(m0, init, arguments.memory_id.n,
                                arguments.user_id.s, env)
         IN  IF r.outcome \in ManagerErrors
             THEN [HandlerRaise(MemoryError("MEMORY_DELETE_FAILED",
                                            <<"Failed to delete memory: ", r.outcome>>,
                                            {"memory_id", "user_id"}),
                                r.mem0, r.initialized, nid)
                   EXCEPT !.calls = r.calls]
             ELSE IF r.outcome = "True"
             THEN HandlerReturn(<<"Memory with ID '", ToString(arguments.memory_id.n),
                                  "' deleted successfully">>,
                                r.mem0, r.initialized, nid, <<>>, r.calls)
             ELSE HandlerReturn(<<"Memory with ID '", ToString(arguments.memory_id.n),
                                  "' not found or could not be deleted">>,
                                r.mem0, r.initialized, nid, <<>>, r.calls)

\* handle_call_tool: the list of text content it returns (response), the
\* code of the exception its except branch received ("" when none), and the
\* MemoryManager's state afterwards. It has no path that raises.
handle_call_tool(name, arguments, mm, m0, init, nid, env) ==
    LET h == IF ~arguments.is_map
             THEN \* AttributeError: 'NoneType' object has no attribute 'get'
                  HandlerRaise([is_mcp |-> FALSE, code |-> "",
                                message |-> <<"object has no attribute">>,
                                details |-> {}, keywords |-> {}],
                               m0, init, nid)
             ELSE IF name = "add_memory"
             THEN _handle_add_memory(arguments, mm, m0, init, nid, env)
             ELSE IF name = "get_memory"
             THEN _handle_get_memory(arguments, mm, m0, init, nid, env)
             ELSE IF name = "delete_memory"
             THEN _handle_delete_memory(arguments, mm, m0, init, nid, env)
             ELSE HandlerRaise(MCPError("TOOL_NOT_FOUND", <<"Unknown tool: ", name>>),
                               m0, init, nid)
    IN  IF h.error # NoError
        THEN [h EXCEPT !.response = format_error_response(h.error, FALSE)]
        ELSE h

\* The tool calls a client makes: add_memory (metadata missing, a dict
\* whose json.dumps has 2 characters, a list), get_memory, delete_memory,
\* an unknown tool, and arguments that are no map.
ArgUsers == {Str("alice"), Str("bob"), Missing, Num(5)}
ToolCalls ==
    {[name |-> "add_memory",
      arguments |-> ArgMap(content, user_id, metadata, Missing, Missing, Missing)] :
        content \in {Str("aisle"), Str("window"), Str(""), Num(5), Missing},
        user_id \in ArgUsers,
        metadata \in {Missing, [kind |-> "dict", s |-> "", n |-> 2],
                       [kind |-> "list", s |-> "", n |-> 0]}}
    \cup
    {[name |-> "get_memory",
      arguments |-> ArgMap(Missing, user_id, Missing, query, limit, Missing)] :
        query \in {Str("aisle"), Str(""), Missing, Num(5)},
        user_id \in ArgUsers,
        limit \in {Missing, Num(1), Num(0), Str("1")}}
    \cup
    {[name |-> "delete_memory",
      arguments |-> ArgMap(Missing, user_id, Missing, Missing, Missing, memory_id)] :
        memory_id \in {[kind |-> "str", s |-> "", n |-> id] : id \in MemoryIds} \cup {Missing, Num(5)},
        user_id \in ArgUsers}
    \cup
    {[name |-> "list_memories",
      arguments |-> ArgMap(Missing, Str("alice"), Missing, Missing, Missing, Missing)],
     [name |-> "add_memory",
      arguments |-> [ArgMap(Missing, Missing, Missing, Missing, Missing, Missing)
                        EXCEPT !.is_map = FALSE]]}

\* MemoryMCPServer.initialize(). configOk: MemoryManager(config) accepts the
\* configuration; connectOk: MemoryManager.initialize() succeeds.
ServerInitialize ==
    \E configOk \in BOOLEAN, connectOk \in BOOLEAN :
        /\ IF server_initialized
           THEN /\ UNCHANGED <<memory_manager, server_initialized, initialized>>
                /\ last' = [NoEvent EXCEPT !.op = "server_initialize",
                                           !.outcome = "returned"]
           ELSE IF ~configOk
           THEN /\ UNCHANGED <<memory_manager, server_initialized, initialized>>
                /\ last' = [NoEvent EXCEPT !.op = "server_initialize",
                                           !.outcome = "raised"]
           ELSE /\ memory_manager' = TRUE
                /\ initialized' = connectOk
                /\ server_initialized' = connectOk
                /\ last' = [NoEvent EXCEPT !.op = "server_initialize",
                                           !.outcome = IF connectOk THEN "returned"
                                                       ELSE "raised"]
        /\ UNCHANGED <<mem0, next_id, redis_vars, config_vars, task_vars>>

\* MemoryMCPServer.shutdown()
ServerShutdown ==
    /\ server_initialized' = FALSE
    /\ last' = [NoEvent EXCEPT !.op = "server_shutdown", !.outcome = "returned"]
    /\ UNCHANGED <<memory_manager, mgr_vars, redis_vars, config_vars, task_vars>>

\* One tool call handled by handle_call_tool.
CallTool ==
    \E call \in ToolCalls, env \in Envs :
        /\ call.name # "delete_memory" => env \in EnvsNoVerify
        /\ \E h \in {handle_call_tool(call.name, call.arguments, memory_manager,
                                      mem0, initialized, next_id, env)} :
            /\ h.next_id <= MaxMemories + 1
            /\ mem0' = h.mem0
            /\ initialized' = h.initialized
            /\ next_id' = h.next_id
            /\ last' = [NoEvent EXCEPT
                          !.op = "call_tool",
                          !.tool = call.name,
                          !.outcome = "returned",
                          !.response = h.response,
                          !.raised_code =
                              IF h.error = NoError THEN ""
                              ELSE IF h.error.is_mcp THEN h.error.code
                              ELSE "not an MCPError",
                          !.hits = h.hits,
                          !.calls = h.calls]
            /\ UNCHANGED <<server_vars, redis_vars, config_vars, task_vars>>

NextServer ==
    \/ ServerInitialize
    \/ ServerShutdown
    \/ CallTool

SpecServer == Init /\ [][NextServer]_vars

---------------------------------------------------------------------------
(* main.ServerRunner.run_server and the task of MemoryMCPServer.run *)

\* The end of MemoryMCPServer.run() as if its try statement had no finally
\* clause: shutdown() only when the transport completed.
RunEndsWithoutFinally(exit) ==
    /\ run_pc' = "done"
    /\ run_exit' = exit
    /\ server_initialized' = IF exit = "returned" THEN FALSE ELSE server_initialized
    /\ shutdown_calls' = IF exit = "returned" THEN shutdown_calls + 1
                         ELSE shutdown_calls

\* The end of MemoryMCPServer.run(): whatever left the try block (exit:
\* "returned", "raised", or "cancelled" for the CancelledError thrown into
\* the task), the finally clause awaits shutdown(), which has no await of
\* its own and sets _initialized to False.
RunEnds(exit) ==
    /\ run_pc' = "done"
    /\ run_exit' = exit
    /\ server_initialized' = FALSE
    /\ shutdown_calls' = shutdown_calls + 1

\* A step that the event loop runs also runs what is ready by then: the
\* waiter of shutdown_event, once the event is set while run_server waits.
LoopRuns ==
    runner_pc' = IF shutdown_event /\ runner_pc = "wait" THEN "shutdown_seen"
                 ELSE runner_pc

\* run_server up to asyncio.wait: the server is constructed, the signal
\* handlers are installed, the tasks of server.run() and of
\* shutdown_event.wait() are created.
RunServerStart ==
    /\ runner_pc = "idle"
    /\ runner_pc' = "wait"
    /\ run_pc' = "created"
    /\ last' = [NoEvent EXCEPT !.op = "run_server"]
    /\ UNCHANGED <<run_exit, shutdown_event, shutdown_calls, messages, op_pc,
                   redis_vars, mgr_vars, server_vars, config_vars>>

\* signal_handler(signum, frame), installed with signal.signal: it sets the
\* event. It runs between two bytecodes of the main thread and wakes no
\* event loop that waits for I/O.
SignalHandler ==
    \E signum \in {"SIGINT", "SIGTERM", "SIGHUP"} :
        /\ runner_pc \in {"wait", "await_cancelled"}
        /\ ~shutdown_event
        /\ shutdown_event' = TRUE
        /\ last' = [NoEvent EXCEPT !.op = "signal_handler", !.text = signum]
        /\ UNCHANGED <<run_pc, run_exit, runner_pc, shutdown_calls, messages, op_pc,
                       redis_vars, mgr_vars, server_vars, config_vars>>

\* The first step of the task of run(): initialize() up to its await of
\* memory_manager.initialize(). configOk: MemoryManager(config) accepts the
\* configuration; otherwise its exception leaves initialize() and run().
RunInitialize ==
    \E configOk \in BOOLEAN :
        /\ run_pc = "created"
        /\ IF configOk
           THEN /\ memory_manager' = TRUE
                /\ run_pc' = "initialize"
                /\ UNCHANGED <<server_initialized, run_exit, shutdown_calls>>
           ELSE /\ RunEnds("raised")
                /\ UNCHANGED memory_manager
        /\ last' = [NoEvent EXCEPT !.op = "run_initialize",
                                   !.outcome = IF configOk THEN "awaiting" ELSE "raised"]
        /\ LoopRuns
        /\ UNCHANGED <<shutdown_event, messages, op_pc,
                       redis_vars, mgr_vars, config_vars>>

\* memory_manager.initialize() ends: initialize() sets _initialized and
\* run() enters the transport, or the ConnectionError leaves run().
RunInitializeReturns ==
    \E connectOk \in BOOLEAN :
        /\ run_pc = "initialize"
        /\ IF connectOk
           THEN /\ initialized' = TRUE
                /\ server_initialized' = TRUE
                /\ run_pc' = "serving"
                /\ UNCHANGED <<run_exit, shutdown_calls>>
           ELSE /\ RunEnds("raised")
                /\ UNCHANGED initialized
        /\ last' = [NoEvent EXCEPT !.op = "run_initialize",
                                   !.outcome = IF connectOk THEN "returned" ELSE "raised"]
        /\ LoopRuns
        /\ UNCHANGED <<memory_manager, mem0, next_id, shutdown_event,
                       messages, op_pc, redis_vars, config_vars>>

\* The transport hands a tool call of the client to handle_call_tool; the
\* backing store is reachable, at once or after the reconnect, or not.
ServeToolCall ==
    \E call \in ToolCalls, env \in {e \in EnvsNoVerify : e.call = "ok"} :
        /\ run_pc = "serving"
        /\ \E h \in {handle_call_tool(call.name, call.arguments, memory_manager,
                                      mem0, initialized, next_id, env)} :
            /\ h.next_id <= MaxMemories + 1
            /\ mem0' = h.mem0
            /\ initialized' = h.initialized
            /\ next_id' = h.next_id
            /\ last' = [NoEvent EXCEPT !.op = "call_tool",
                                       !.tool = call.name,
                                       !.outcome = "returned",
                                       !.response = h.response,
                                       !.calls = h.calls]
        /\ LoopRuns
        /\ UNCHANGED <<server_vars, run_pc, run_exit, shutdown_event,
                       shutdown_calls, messages, op_pc, redis_vars, config_vars>>

\* The transport ends: self.server.run returns, KeyboardInterrupt is raised
\* (run() swallows it), or a background task fails (RuntimeError).
RunTransportEnds ==
    \E how \in {"completed", "KeyboardInterrupt", "background_error"} :
        /\ run_pc = "serving"
        /\ RunEnds(IF how = "background_error" THEN "raised" ELSE "returned")
        /\ last' = [NoEvent EXCEPT !.op = "run_transport_ends", !.text = how]
        /\ LoopRuns
        /\ UNCHANGED <<memory_manager, mgr_vars, shutdown_event,
                       messages, op_pc, redis_vars, config_vars>>

\* task.cancel() of run_server takes effect: CancelledError is thrown into
\* the task where it awaits; no except clause of initialize() or run()
\* catches it.
RunCancelled ==
    /\ runner_pc = "await_cancelled"
    /\ run_pc \in {"initialize", "serving"}
    /\ RunEnds("cancelled")
    /\ last' = [NoEvent EXCEPT !.op = "run_cancelled"]
    /\ UNCHANGED <<memory_manager, mgr_vars, runner_pc, shutdown_event,
                   messages, op_pc, redis_vars, config_vars>>

\* asyncio.wait returns with the server task done: the shutdown task is
\* cancelled, or is done as well (alsoShutdown) and then server.shutdown()
\* is called; awaiting the server task re-raises its exception; the finally
\* clause calls server.shutdown().
RunServerWaitReturns ==
    \E alsoShutdown \in BOOLEAN :
        /\ runner_pc \in {"wait", "shutdown_seen"}
        /\ run_pc = "done"
        /\ alsoShutdown = (runner_pc = "shutdown_seen")
        /\ runner_pc' = IF run_exit = "raised" THEN "raised" ELSE "returned"
        /\ server_initialized' = FALSE
        /\ shutdown_calls' = shutdown_calls + (IF alsoShutdown THEN 2 ELSE 1)
        /\ last' = [NoEvent EXCEPT !.op = "run_server_ends"]
        /\ UNCHANGED <<memory_manager, mgr_vars, run_pc, run_exit, shutdown_event,
                       messages, op_pc, redis_vars, config_vars>>

\* asyncio.wait returns with only the shutdown task done, the event loop
\* having run the waiter of the event that the signal handler set. The
\* pending server task is cancelled and awaited.
RunServerShutdownRequested ==
    /\ runner_pc = "shutdown_seen"
    /\ run_pc \in {"initialize", "serving"}
    /\ runner_pc' = "await_cancelled"
    /\ last' = [NoEvent EXCEPT !.op = "run_server_cancels"]
    /\ UNCHANGED <<run_pc, run_exit, shutdown_event, shutdown_calls, messages,
                   op_pc, redis_vars, mgr_vars, server_vars, config_vars>>

\* The cancelled server task has ended: its CancelledError is passed over,
\* server.shutdown() is called for the requested shutdown and again in the
\* finally clause, and run_server returns.
RunServerAfterCancel ==
    /\ runner_pc = "await_cancelled"
    /\ run_pc = "done"
    /\ runner_pc' = "returned"
    /\ server_initialized' = FALSE
    /\ shutdown_calls' = shutdown_calls + 2
    /\ last' = [NoEvent EXCEPT !.op = "run_server_ends"]
    /\ UNCHANGED <<memory_manager, mgr_vars, run_pc, run_exit, shutdown_event,
                   messages, op_pc, redis_vars, config_vars>>

NextRun ==
    \/ RunServerStart
    \/ SignalHandler
    \/ RunInitialize
    \/ RunInitializeReturns
    \/ ServeToolCall
    \/ RunTransportEnds
    \/ RunCancelled
    \/ RunServerWaitReturns
    \/ RunServerShutdownRequested
    \/ RunServerAfterCancel

\* The event loop runs every step that is ready: the steps of the server
\* task after its awaits and of run_server after a task ended. The tool
\* calls, the end of the transport and the signals are the environment's.
SpecRun ==
    /\ Init
    /\ [][NextRun]_vars
    /\ WF_vars(RunInitialize)
    /\ WF_vars(RunInitializeReturns)
    /\ WF_vars(RunCancelled)
    /\ WF_vars(RunServerWaitReturns)
    /\ WF_vars(RunServerShutdownRequested)
    /\ WF_vars(RunServerAfterCancel)

---------------------------------------------------------------------------
(* Concurrent get_memories calls on one MemoryManager *)

\* Tasks of one event loop interleave at their awaits. get_memories with
\* valid arguments awaits the ping of validate_connection, then, when the
\* ping failed, the initialize() of reconnect(), then the search. The
\* backing store accepts every reconnect of these calls and answers every
\* search; add_memory calls run to their end between their steps.

\* get_memories up to its first await: _ensure_initialized(), the
\* validation, validate_connection() up to the ping.
GetStart ==
    \E p \in Procs :
        /\ op_pc[p] = "idle"
        /\ op_pc' = IF initialized THEN [op_pc EXCEPT ![p] = "ping"] ELSE op_pc
        /\ last' = [NoEvent EXCEPT !.op = "get_memories",
                                   !.text = p,
                                   !.outcome = IF initialized THEN "started"
                                               ELSE "MemoryManagerError"]
        /\ UNCHANGED <<redis_vars, mgr_vars, server_vars, config_vars, run_pc,
                       run_exit, runner_pc, shutdown_event, shutdown_calls, messages>>

\* The ping ends: validate_connection() returns True and the search is
\* started, or False and reconnect() sets _initialized to False and awaits
\* the ping of initialize().
GetPingReturns ==
    \E p \in Procs, ok \in BOOLEAN :
        /\ op_pc[p] = "ping"
        /\ op_pc' = [op_pc EXCEPT ![p] = IF ok THEN "search" ELSE "reconnect"]
        /\ initialized' = IF ok THEN initialized ELSE FALSE
        /\ last' = [NoEvent EXCEPT !.op = "validate_connection", !.text = p,
                                   !.outcome = IF ok THEN "True" ELSE "False"]
        /\ UNCHANGED <<mem0, next_id, redis_vars, server_vars, config_vars, run_pc,
                       run_exit, runner_pc, shutdown_event, shutdown_calls, messages>>

\* The initialize() of reconnect() ends: _initialized is True again and the
\* search is started.
GetReconnectReturns ==
    \E p \in Procs :
        /\ op_pc[p] = "reconnect"
        /\ op_pc' = [op_pc EXCEPT ![p] = "search"]
        /\ initialized' = TRUE
        /\ last' = [NoEvent EXCEPT !.op = "reconnect", !.text = p,
                                   !.outcome = "returned"]
        /\ UNCHANGED <<mem0, next_id, redis_vars, server_vars, config_vars, run_pc,
                       run_exit, runner_pc, shutdown_event, shutdown_calls, messages>>

\* The search ends and get_memories returns its results.
GetSearchReturns ==
    \E p \in Procs, user_id \in {"alice", "bob"} :
        /\ op_pc[p] = "search"
        /\ op_pc' = [op_pc EXCEPT ![p] = "idle"]
        /\ last' = [NoEvent EXCEPT
                      !.op = "get_memories", !.text = p, !.outcome = "ok",
                      !.hits = Mem0Search(mem0, "aisle", user_id,
                                          CappedLimit(GET_MEMORY_DEFAULT_LIMIT))]
        /\ UNCHANGED <<redis_vars, mgr_vars, server_vars, config_vars, run_pc,
                       run_exit, runner_pc, shutdown_event, shutdown_calls, messages>>

NextMgrRace ==
    \/ Initialize
    \/ AddMemory
    \/ GetStart
    \/ GetPingReturns
    \/ GetReconnectReturns
    \/ GetSearchReturns

SpecMgrRace == Init /\ [][NextMgrRace]_vars

---------------------------------------------------------------------------
(* agents.execute_tools *)

\* tools = [store_memory_tool, retrieve_memories_tool], by name
tools == {"store_memory_tool", "retrieve_memories_tool"}

\* Messages. A tool call of an AIMessage: [name, id, args], args being the
\* content or the query for the tool, or "invalid" for arguments that the
\* tool's schema refuses (invoke raises).
Message(type, tool_calls, tool_call_id, name, content) ==
    [type |-> type, tool_calls |-> tool_calls, tool_call_id |-> tool_call_id,
     name |-> name, content |-> content]

RECURSIVE InvokeTools(_, _, _, _, _)
\* The loop of execute_tools over tool_calls on index idx: the ToolMessages
\* it collects and the index the tools leave. A call that names no tool of
\* `tools` is passed over (continue).
InvokeTools(tool_calls, idx, config, uf, loadOk) ==
    IF tool_calls = <<>> THEN [tool_messages |-> <<>>, index |-> idx]
    ELSE LET tool_call == Head(tool_calls)
             stored == store_memory_tool(idx, tool_call.args, EPISODIC, config,
                                         uf, loadOk)
             found == retrieve_memories_tool(idx, tool_call.args, <<>>,
                                             DEFAULT_LIMIT, config, "no_match")
             raises == tool_call.args = "invalid"
             now == IF tool_call.name \notin tools THEN <<>>
                    ELSE IF raises
                    THEN <<Message("tool", <<>>, tool_call.id, tool_call.name,
                                   "Error executing tool")>>
                    ELSE IF tool_call.name = "store_memory_tool"
                    THEN <<Message("tool", <<>>, tool_call.id, tool_call.name,
                                   stored.text)>>
                    ELSE <<Message("tool", <<>>, tool_call.id, tool_call.name,
                                   found.text)>>
             after == IF tool_call.name = "store_memory_tool" /\ ~raises
                      THEN stored.index ELSE idx
             rest == InvokeTools(Tail(tool_calls), after, config, uf, loadOk)
         IN  [tool_messages |-> now \o rest.tool_messages, index |-> rest.index]

\* execute_tools(state, config): the messages and the index after it.
execute_tools(msgs, idx, config, uf, loadOk) ==
    LET with_calls == {i \in 1..Len(msgs) :
                          msgs[i].type = "ai" /\ msgs[i].tool_calls # <<>>}
    IN  IF with_calls = {} THEN [messages |-> msgs, index |-> idx]
        ELSE LET latest_ai_message ==
                     msgs[CHOOSE i \in with_calls : \A j \in with_calls : j <= i]
                 r == InvokeTools(latest_ai_message.tool_calls, idx, config,
                                  uf, loadOk)
             IN  [messages |-> msgs \o r.tool_messages, index |-> r.index]

\* The graph appends a message to the state: the user's input, or the
\* agent's answer, with up to two tool calls the model chose.
AddMessage ==
    \E type \in {"human", "ai"}, n \in 0..2,
       names \in [1..2 -> tools \cup {"book_flight"}],
       arguments \in [1..2 -> {"aisle", "invalid"}] :
        /\ Len(messages) < MaxMessages
        /\ type = "human" => n = 0
        /\ \A k \in 1..2 : k > n => (names[k] = "book_flight" /\ arguments[k] = "aisle")
        /\ messages' = Append(messages,
              Message(type,
                      [k \in 1..n |-> [name |-> names[k],
                                       id |-> IF k = 1 THEN "call_1" ELSE "call_2",
                                       args |-> arguments[k]]],
                      "", "", ""))
        /\ last' = [NoEvent EXCEPT !.op = "add_message"]
        /\ UNCHANGED <<redis_vars, mgr_vars, server_vars, config_vars, run_pc,
                       run_exit, runner_pc, shutdown_event, shutdown_calls, op_pc>>

ExecuteTools ==
    \E session \in Sessions, loadOk \in BOOLEAN :
      \E uf \in UnknownFieldChoices(ToolThreadId(ToolConfig(session))) :
        \E r \in {execute_tools(messages, index, ToolConfig(session), uf, loadOk)} :
            /\ Len(r.index) <= MaxRecords
            /\ Len(r.messages) <= MaxMessages + 2
            /\ messages' = r.messages
            /\ index' = r.index
            /\ last' = [NoEvent EXCEPT !.op = "execute_tools"]
            /\ UNCHANGED <<pc, args, overlap, mgr_vars, server_vars, config_vars,
                           run_pc, run_exit, runner_pc, shutdown_event,
                           shutdown_calls, op_pc>>

NextAgent == AddMessage \/ ExecuteTools

SpecAgent == Init /\ [][NextAgent]_vars

---------------------------------------------------------------------------
(* config_manager.ConfigManager *)

\* JSON values at the section level of a file: a dict with its items, or a
\* string; Absent: the file has no such key.
Absent == [kind |-> "absent", items |-> {}]
JDict(items) == [kind |-> "dict", items |-> items]
JString == [kind |-> "str", items |-> {}]

\* A configuration file: missing, not JSON ("invalid_json"), JSON that is
\* no object ("not_object"), or an object with these values under the keys
\* redis and server.
File(state, redis, server) ==
    [state |-> state,
     sections |-> [redis |-> redis, mem0 |-> Absent, server |-> server]]

ConfigFiles ==
    {File("missing", Absent, Absent),
     File("invalid_json", Absent, Absent),
     File("not_object", Absent, Absent),
     File("object", Absent, Absent),
     File("object", JDict({<<"url", "redis://other:6379">>}), Absent),
     File("object", JDict({<<"url", "http://bad">>}), Absent),
     File("object", JString, Absent),
     File("object", Absent, JDict({<<"log_level", "DEBUG">>})),
     File("object", Absent, JDict({<<"log_level", "LOUD">>})),
     File("object", JDict({<<"collection_name", "notes">>}), JString)}

\* dict.get(key) on the items of a dict ("": None).
Get(items, key) ==
    IF \E p \in items : p[1] = key
    THEN (CHOOSE p \in items : p[1] = key)[2] ELSE ""

\* base[key] = value for every item of override (the values are no dicts)
MergeItems(base, override) ==
    {p \in base : ~\E q \in override : q[1] = p[1]} \cup override

\* _merge_config(base, override) on a top-level dict base whose entries are
\* `bindings`, `shared` being the items of the shared section dicts: a dict
\* under a key whose entry is a dict is merged INTO that dict, any other
\* value replaces the entry. Gives the entries and the shared dicts after it.
_merge_config(bindings, shared, override) ==
    LET intoShared(s) == bindings[s].shared /\ override[s].kind = "dict"
        intoOwn(s) == /\ ~bindings[s].shared
                      /\ bindings[s].value.kind = "dict"
                      /\ override[s].kind = "dict"
        entry(s) ==
            IF override[s].kind = "absent" \/ intoShared(s) THEN bindings[s]
            ELSE IF intoOwn(s)
            THEN Own(JDict(MergeItems(bindings[s].value.items, override[s].items)))
            ELSE Own(override[s])
        dict(s) ==
            IF intoShared(s) THEN MergeItems(shared[s], override[s].items)
            ELSE shared[s]
    IN  [bindings |-> [redis |-> entry("redis"), mem0 |-> entry("mem0"),
                       server |-> entry("server")],
         shared |-> [redis |-> dict("redis"), mem0 |-> dict("mem0"),
                     server |-> dict("server")]]

\* The configuration a top-level dict stands for: per section, its value.
Resolve(bindings, shared) ==
    LET value(s) == IF bindings[s].shared THEN JDict(shared[s])
                    ELSE bindings[s].value
    IN  [redis |-> value("redis"), mem0 |-> value("mem0"),
         server |-> value("server")]

\* _validate_config() on the configuration self._config stands for: "ok"
\* when it returns, "raise" when it raises (a section that is no dict has
\* no .get: AttributeError). startswith: the URLs that occur and start
\* with "redis://" or "rediss://".
_validate_config(cfg) ==
    LET startswith ==
            {"redis://localhost:6379", "redis://other:6379", "redis://env:6379"}
        valid_log_levels == {"DEBUG", "INFO", "WARNING", "ERROR", "CRITICAL"}
    IN
    IF cfg["redis"].kind # "dict" THEN "raise"
    ELSE IF Get(cfg["redis"].items, "url") = "" THEN "raise"
    ELSE IF Get(cfg["redis"].items, "url") \notin startswith THEN "raise"
    ELSE IF Get(cfg["redis"].items, "collection_name") = "" THEN "raise"
    ELSE IF cfg["mem0"].kind # "dict" THEN "raise"
    ELSE IF Get(cfg["mem0"].items, "llm") = ""
            \/ Get(cfg["mem0"].items, "embedder") = "" THEN "raise"
    ELSE IF cfg["server"].kind # "dict" THEN "raise"
    ELSE IF Get(cfg["server"].items, "name") = "" THEN "raise"
    ELSE IF Get(cfg["server"].items, "version") = "" THEN "raise"
    ELSE IF Get(cfg["server"].items, "log_level") \notin valid_log_levels THEN "raise"
    ELSE "ok"

\* _set_nested_config(config, (section, key), value): the item is set in
\* the dict under the section, which is the shared dict when the entry
\* still refers to it; a string there takes no item (TypeError).
_set_nested_config(bindings, shared, section, key, value) ==
    LET item == {<<key, value>>}
    IN  IF bindings[section].shared
        THEN [bindings |-> bindings,
              shared |-> [shared EXCEPT ![section] = MergeItems(@, item)],
              raised |-> FALSE]
        ELSE IF bindings[section].value.kind = "dict"
        THEN [bindings |-> [bindings EXCEPT ![section] =
                               Own(JDict(MergeItems(@.value.items, item)))],
              shared |-> shared, raised |-> FALSE]
        ELSE [bindings |-> bindings, shared |-> shared, raised |-> TRUE]

\* _load_env_overrides() with the environment env: REDIS_URL, then
\* MCP_LOG_LEVEL, each when set; an exception ends the loop (_load_config
\* logs it and goes on with the configuration as it is then).
_load_env_overrides(bindings, shared, env) ==
    LET first == IF env.REDIS_URL = ""
                 THEN [bindings |-> bindings, shared |-> shared, raised |-> FALSE]
                 ELSE _set_nested_config(bindings, shared, "redis", "url",
                                         env.REDIS_URL)
    IN  IF first.raised \/ env.MCP_LOG_LEVEL = "" THEN first
        ELSE _set_nested_config(first.bindings, first.shared, "server",
                                "log_level", env.MCP_LOG_LEVEL)

\* _load_config() with `file` at config_path: a fresh shallow copy of
\* DEFAULT_CONFIG, the file merged into it when it holds a JSON object,
\* the environment overrides, then validation, whose exception propagates.
_load_config(shared, file, env) ==
    LET merged == IF file.state = "object"
                  THEN _merge_config(ShallowCopy, shared, file.sections)
                  ELSE [bindings |-> ShallowCopy, shared |-> shared]
        loaded == _load_env_overrides(merged.bindings, merged.shared, env)
    IN  [bindings |-> loaded.bindings,
         shared |-> loaded.shared,
         outcome |-> IF _validate_config(Resolve(loaded.bindings, loaded.shared)) = "ok"
                     THEN "returned" ELSE "raised"]

\* validate_config_file(config_path) with `file` there: the file is merged
\* into a shallow copy of DEFAULT_CONFIG, self._config is swapped for it
\* during validation and put back; any exception gives False.
validate_config_file(bindings, shared, file) ==
    IF file.state # "object"
    THEN [bindings |-> bindings, shared |-> shared, outcome |-> "False"]
    ELSE LET temp == _merge_config(ShallowCopy, shared, file.sections)
         IN  [bindings |-> bindings,
              shared |-> temp.shared,
              outcome |-> IF _validate_config(Resolve(temp.bindings, temp.shared)) = "ok"
                          THEN "True" ELSE "False"]

\* get_config(): the configuration self._config stands for
get_config == Resolve(_config, default_sections)

ReloadConfig ==
    \E file \in ConfigFiles,
       env \in [REDIS_URL : {"", "redis://env:6379"},
                MCP_LOG_LEVEL : {"", "WARNING"}] :
      \E r \in {_load_config(default_sections, file, env)} :
        /\ _config' = r.bindings
        /\ default_sections' = r.shared
        /\ last' = [NoEvent EXCEPT !.op = "reload_config", !.outcome = r.outcome]
        /\ UNCHANGED <<redis_vars, mgr_vars, server_vars, task_vars>>

ValidateConfigFile ==
    \E file \in ConfigFiles :
      \E r \in {validate_config_file(_config, default_sections, file)} :
        /\ _config' = r.bindings
        /\ default_sections' = r.shared
        /\ last' = [NoEvent EXCEPT !.op = "validate_config_file",
                                   !.outcome = r.outcome]
        /\ UNCHANGED <<redis_vars, mgr_vars, server_vars, task_vars>>

NextConfig == ReloadConfig \/ ValidateConfigFile

SpecConfig == Init /\ [][NextConfig]_vars

---------------------------------------------------------------------------
(* Properties *)

\* The user scope a call with this user_id argument works in.
ScopeOf(user_id) == IF user_id = None THEN SYSTEM_USER_ID ELSE user_id

SameScopeAndContent(r1, r2) ==
    /\ r1.content = r2.content
    /\ r1.user_id = r2.user_id
    /\ r1.memory_type = r2.memory_type

\* C1 - Dedup idempotence. With one caller at a time (Spec), store_memory
\* calls without a thread_id never leave two records of the same content in
\* one (user, memory_type) scope: of two calls with identical arguments the
\* second is suppressed by the dedup check.
C1_DedupIdempotence ==
    \A i \in 1..Len(index), j \in 1..Len(index) :
        (i < j /\ index[i].thread_id = None /\ index[j].thread_id = None)
            => ~SameScopeAndContent(index[i], index[j])

\* C1 witness: a store_memory call without thread was skipped while the
\* index holds a record of its user scope.
C1_Witness ==
    /\ last.op = "store_memory"
    /\ last.outcome = "skipped"
    /\ last.thread_id = None
    /\ \E i \in 1..Len(index) :
          index[i].user_id = ScopeOf(last.user_id) /\ index[i].thread_id = None

\* C2 - Scope isolation. Every record retrieve_memories returns for user
\* scope u has user_id u, for every memory_type and thread_id filter and
\* every user_id text.
C2_ScopeIsolation ==
    \A query \in Contents, mt \in TypeArgs, user_id \in QueryUsers,
       thread_id \in Threads, limit \in {1, DEFAULT_LIMIT} :
        \A uf \in UnknownFieldChoices(thread_id) :
            LET r == retrieve_memories(index, query, mt, user_id, thread_id,
                                       RETRIEVE_THRESHOLD, limit, uf)
            IN  \A k \in 1..Len(r.hits) :
                    index[r.hits[k]].user_id = ScopeOf(user_id)

\* C7 - Self-recall. Every record written by store_memory is among the
\* results of retrieve_memories called with its content, its user_id and its
\* memory_type, with the default limit and threshold.
C7_SelfRecall ==
    \A i \in 1..Len(index) :
        LET r == retrieve_memories(index, index[i].content,
                                   OneType(index[i].memory_type),
                                   index[i].user_id, None,
                                   RETRIEVE_THRESHOLD, DEFAULT_LIMIT, "no_match")
        IN  \E k \in 1..Len(r.hits) : r.hits[k] = i

\* C8 - Type and thread filter. Every record retrieve_memories returns has a
\* memory type named by the memory_type argument (the one type, or one of the
\* listed types) when one is given, and the thread of the call when a
\* thread_id is given.
C8_FilterRespected ==
    \A query \in Contents, mt \in TypeArgs, user_id \in QueryUsers,
       thread_id \in Threads, limit \in {1, DEFAULT_LIMIT} :
        \A uf \in UnknownFieldChoices(thread_id) :
            LET r == retrieve_memories(index, query, mt, user_id, thread_id,
                                       RETRIEVE_THRESHOLD, limit, uf)
            IN  \A k \in 1..Len(r.hits) :
                    /\ TypeGiven(mt) => index[r.hits[k]].memory_type
                            \in {mt.v[n] : n \in 1..Len(mt.v)}
                    /\ thread_id # None => index[r.hits[k]].thread_id = thread_id

\* C8 witness: a retrieval has returned the records that a call listing the
\* semantic type returns, while an episodic record of the same user lies
\* within the threshold and is left out.
C8_Witness ==
    /\ last.op = "retrieve_memories"
    /\ last.hits # <<>>
    /\ \E query \in Contents, user_id \in QueryUsers :
        LET r == retrieve_memories(index, query, TypeList(<<SEMANTIC>>), user_id,
                                   None, RETRIEVE_THRESHOLD, DEFAULT_LIMIT,
                                   "no_match")
        IN  /\ r.hits = last.hits
            /\ \E i \in 1..Len(index) :
                  /\ index[i].memory_type = EPISODIC
                  /\ index[i].user_id = ScopeOf(user_id)
                  /\ Distance(Embed(query), index[i].embedding) <= RETRIEVE_THRESHOLD

\* C10 - Dedup check before any write. A store_memory call that is skipped
\* leaves the index unchanged, and a call that changes the index appends one
\* record for which the dedup check of the call found nothing.
C10_DedupBeforeWrite ==
    [][ /\ (last'.op = "store_memory" /\ last'.outcome = "skipped")
            => index' = index
        /\ (last'.op = "store_memory" /\ index' # index)
            => /\ Len(index') = Len(index) + 1
               /\ SubSeq(index', 1, Len(index)) = index
               /\ last'.outcome = "stored"
               /\ ~similar_memory_exists(index,
                                         index'[Len(index')].content,
                                         index'[Len(index')].memory_type,
                                         last'.user_id, last'.thread_id)
      ]_vars

\* C10 witness: a skipped store_memory call on an index of one record.
C10_Witness ==
    /\ last.op = "store_memory"
    /\ last.outcome = "skipped"
    /\ Len(index) = 1

\* C5 - Limit. A retrieval returns at most limit records and never asks the
\* index for more than the maximum of 100.
C5_LimitCapped ==
    last.op = "retrieve_memories_tool"
        => /\ Len(last.hits) <= last.limit
           /\ last.num_results <= MAX_LIMIT

\* C9 - Scope propagation. A tool called with the session's config works
\* under the user (and stores under the thread) of the session; the system
\* scope is used only without a user in the config.
C9_ScopePropagation ==
    /\ (last.op \in {"store_memory_tool", "retrieve_memories_tool"}
            /\ last.session.present)
        => last.user_id = last.session.user_id
    /\ (last.op = "store_memory_tool" /\ last.session.present)
        => last.thread_id = last.session.thread_id
    /\ (last.op = "store_memory_tool" /\ last.outcome = "stored")
        => index[Len(index)].user_id = ScopeOf(last.session.user_id)

\* C4 - Check-then-act race. Nothing re-examines the index between a passed
\* dedup check and the write: a caller past its check ends with the load, and
\* a load that succeeds appends the caller's record whatever the index has
\* received since the check.
C4_NoRecheckBeforeWrite ==
    [][ \A p \in Procs :
            (pc[p] = "checked" /\ pc'[p] = "idle")
                => /\ last'.outcome \in {"stored", "load_error"}
                   /\ last'.outcome = "stored"
                        => index' = Append(index,
                                        memory_data(args[p].content,
                                                    args[p].memory_type,
                                                    args[p].user_id,
                                                    args[p].thread_id))
      ]_vars

\* C4 witness: two calls overlapped and the index holds two records of one
\* content in one scope.
C4_Witness ==
    /\ overlap
    /\ \E i \in 1..Len(index), j \in 1..Len(index) :
          i < j /\ SameScopeAndContent(index[i], index[j])


\* C6: once delete_memory(m, u) has returned True, the get_memories call for
\* user u that follows it immediately (nothing stored in between) never lists
\* memory m among its results, whatever the query.
C6_DeletedNotRetrieved ==
    (last.op = "get_memories" /\ last.after_delete # 0)
        => \A i \in 1..Len(last.hits) : last.hits[i] # last.after_delete

\* A delete that returned True is followed by a successful retrieval for the
\* same user that still finds that user's other memory.
C6_Witness ==
    /\ last.op = "get_memories"
    /\ last.after_delete # 0
    /\ last.outcome = "ok"
    /\ last.hits # <<>>

\* C3: a delete_memory(memory_id, user_id) call made when no record with that
\* memory_id exists under user_id does not return True, does not call the
\* index delete and leaves the record set as it was.
C3_NotOwnedNoMutation ==
    [][(/\ last'.op = "delete_memory"
        /\ ~\E r \in mem0 : r.id = last'.memory_id /\ r.user_id = last'.user_id)
        => /\ last'.outcome # "True"
           /\ ~last'.delete_called
           /\ mem0' = mem0]_vars

\* C11: a store_memory call whose index write (load) fails ends without an
\* exception reaching the caller (the only call that raises is one whose
\* thread-scoped dedup query raised) and leaves the index exactly as it was;
\* every record in the index carries all the fields of memory_data.
C11_LoadFailureSwallowed ==
    [][(last'.op = "store_memory") =>
        /\ (last'.outcome = "load_error" => index' = index)
        /\ (last'.outcome = "raised" => last'.thread_id # None)
        /\ \A i \in 1..Len(index') :
              DOMAIN index'[i] = DOMAIN memory_data("aisle", EPISODIC, None, None)]_vars

\* A store_memory call whose load failed, made while the index holds a record.
C11_Witness ==
    /\ last.op = "store_memory"
    /\ last.outcome = "load_error"
    /\ last.thread_id = None
    /\ index # <<>>

\* C12: in every reachable index, whatever the arguments of a store_memory
\* call, each record its dedup check accepts carries the user_id and the
\* memory_type the call would write on its own record (an empty or absent
\* user_id standing for the system user).
C12_ScopeConsistency ==
    \A memory_type \in MemoryType, user_id \in StoreUsers, thread_id \in Threads :
        \A i \in DedupFilter(index, memory_type, user_id, thread_id) :
            /\ index[i].user_id =
                   memory_data("aisle", memory_type, user_id, thread_id).user_id
            /\ index[i].memory_type = memory_type

\* C13: no MemoryManager operation reconnects more than once or runs its
\* body more than once; an operation whose connection check found the store
\* unreachable makes exactly one reconnect attempt, and then either ends with
\* ConnectionError (the reconnect failed) or runs its body exactly once.
C13_BoundedReconnect ==
    LET \* the mem0 call that is the body of each MemoryManager operation
        BodyCall(op) ==
            CASE op = "add_memory" -> "add"
              [] op = "get_memories" -> "search"
              [] op = "delete_memory" -> "get_all"
              [] OTHER -> ""
    IN
    last.op \in {"add_memory", "get_memories", "delete_memory"} =>
        /\ Count(last.calls, "reconnect") <= 1
        /\ Count(last.calls, BodyCall(last.op)) <= 1
        /\ Count(last.calls, "delete") <= 1
        /\ (last.calls # <<>> /\ last.calls[1] = "ping_failed")
            => /\ Len(last.calls) >= 2
               /\ last.calls[2] = "reconnect"
               /\ Count(last.calls, "reconnect") = 1
               /\ IF Len(last.calls) = 2
                  THEN last.outcome = "ConnectionError"
                  ELSE Count(last.calls, BodyCall(last.op)) = 1
        /\ (last.calls # <<>> /\ last.calls[Len(last.calls)] = "ping_failed"
                /\ Len(last.calls) > 2)
            => last.outcome = "ConnectionError"

\* An add_memory that found the store unreachable, reconnected once and then
\* added the memory.
C13_Witness ==
    /\ last.op = "add_memory"
    /\ last.calls = <<"ping_failed", "reconnect", "add">>
    /\ last.outcome = "ok"

\* C14: whenever the ownership-verification read of a delete_memory call
\* raised, the call went on to call the index delete for that memory_id,
\* right after the read, whether or not the user owns such a memory.
C14_VerificationFailsOpen ==
    (last.op = "delete_memory" /\ last.verify_raised) =>
        /\ last.delete_called
        /\ \E k \in 1..(Len(last.calls) - 1) :
              last.calls[k] = "get_all" /\ last.calls[k + 1] = "delete"

\* A delete_memory whose verification read raised and which deleted and
\* returned True.
C14_Witness ==
    /\ last.op = "delete_memory"
    /\ last.verify_raised
    /\ last.delete_called
    /\ last.outcome = "True"

\* C15: in every reachable state with the manager initialized, add_memory,
\* get_memories and delete_memory called with an invalid input (content
\* empty, whitespace-only or over 10000 characters; user_id or memory_id
\* empty; limit <= 0; metadata not a dict or over 1000 characters) raise
\* ValidationError without having asked anything of the backing store (no
\* connection check, reconnect or index call) and leave the records and the
\* manager's state as they were, whatever the store would have answered.
C15_ValidationImmediate ==
    initialized =>
        /\ \A content \in MgrContents, user_id \in MgrUsers,
              metadata \in MgrMetadata, env \in EnvsNoVerify :
              (\/ content \in {"", Blank, LongContent}
               \/ user_id \in {"", Blank}
               \/ (metadata.given /\ ~metadata.is_dict)
               \/ metadata.json_len > MAX_METADATA_SIZE)
              => \E r \in {add_memory(mem0, initialized, next_id, content,
                                      user_id, metadata, env)} :
                    /\ r.outcome = "ValidationError"
                    /\ r.calls = <<>>
                    /\ r.mem0 = mem0
                    /\ r.initialized = initialized
                    /\ r.next_id = next_id
        /\ \A query \in {"aisle", "window", ""}, user_id \in MgrUsers, limit \in {0, 1, MAX_LIMIT + 1},
              env \in EnvsNoVerify :
              (query = "" \/ user_id \in {"", Blank} \/ limit <= 0)
              => \E r \in {get_memories(mem0, initialized, query, user_id,
                                        limit, env)} :
                    /\ r.outcome = "ValidationError"
                    /\ r.calls = <<>>
                    /\ r.initialized = initialized
        /\ \A memory_id \in MemoryIds, user_id \in MgrUsers, env \in Envs :
              (memory_id = 0 \/ user_id \in {"", Blank})
              => \E r \in {delete_memory(mem0, initialized, memory_id,
                                         user_id, env)} :
                    /\ r.outcome = "ValidationError"
                    /\ r.calls = <<>>
                    /\ ~r.delete_called
                    /\ r.mem0 = mem0
                    /\ r.initialized = initialized

\* An operation that ended with ValidationError on an initialized manager
\* holding a record.
C15_Witness ==
    /\ last.op = "add_memory"
    /\ last.outcome = "ValidationError"
    /\ last.calls = <<>>
    /\ initialized
    /\ mem0 # {}

\* The response is an error text: 'Error [<code>]: <message>'.
IsErrorText(response) ==
    /\ Len(response) >= 4
    /\ response[1] = "Error ["
    /\ response[2] \in ErrorCode
    /\ response[3] = "]: "

\* C16: every handle_call_tool call returns a non-empty list of text and
\* never raises; whenever an exception reached its except branch the text
\* is 'Error [<code>]: <message>' with <code> an ErrorCode value; no response
\* holds a traceback; and in every reachable state a call that names no
\* tool, lacks or mistypes an argument, or comes while no memory manager is
\* set, is answered by such an error text.
C16_ErrorsBecomeText ==
    /\ last.op = "call_tool" =>
        /\ last.outcome = "returned"
        /\ last.response # <<>>
        /\ \A k \in 1..Len(last.response) : last.response[k] # TRACEBACK
        /\ last.raised_code # "" => IsErrorText(last.response)
    /\ \A call \in ToolCalls :
        LET arguments == call.arguments
            bad == \/ ~arguments.is_map
                   \/ call.name \notin {"add_memory", "get_memory", "delete_memory"}
                   \/ arguments.user_id.kind # "str"
                   \/ call.name = "add_memory"
                       /\ (arguments.content.kind # "str"
                           \/ arguments.metadata.kind \notin {"missing", "dict"})
                   \/ call.name = "get_memory"
                       /\ (arguments.query.kind # "str"
                           \/ arguments.limit.kind \notin {"missing", "int"})
                   \/ call.name = "delete_memory" /\ arguments.memory_id.kind # "str"
            healthy == [ping |-> TRUE, reconn |-> TRUE, verify |-> "ok",
                        call |-> "ok", ping2 |-> TRUE]
        IN  (bad \/ ~memory_manager) =>
                IsErrorText(handle_call_tool(call.name, arguments, memory_manager,
                                             mem0, initialized, next_id,
                                             healthy).response)

\* A tool call whose memory operation failed and was answered by a text.
C16_Witness ==
    /\ last.op = "call_tool"
    /\ last.raised_code = "MEMORY_ADD_FAILED"
    /\ last.calls # <<>>
    /\ IsErrorText(last.response)

C18_UnparseableDropped ==
    last.op = "retrieve_memories" =>
        /\ last.outcome = "ok"
        /\ \A k \in 1..Len(last.results) :
              (last.results[k] \in Range(last.hits))
                  <=> /\ "content" \in DOMAIN index[last.results[k]]
                      /\ index[last.results[k]].memory_type \in {EPISODIC, SEMANTIC}
        /\ Range(last.hits) \subseteq Range(last.results)
        /\ \A k, l \in 1..Len(last.hits) :
              k < l => \E a, b \in 1..Len(last.results) :
                          /\ a < b
                          /\ last.results[a] = last.hits[k]
                          /\ last.results[b] = last.hits[l]

\* A retrieval in which the index returned an unparseable document between
\* two parseable ones, and both of these were returned.
C18_Witness ==
    /\ last.op = "retrieve_memories"
    /\ Len(last.results) = 3
    /\ ~Parses(index[last.results[2]])
    /\ last.hits = <<last.results[1], last.results[3]>>

\* C19: the fields the dedup check and the retrieval filter on are tag
\* fields of the schema the code creates, so that in every reachable index
\* a record stored with thread_id t1 is accepted by the t1-scoped dedup
\* filter and by the t1-scoped retrieval filter of its own user and
\* memory_type.
C19_FilterFieldsDeclared ==
    \A i \in 1..Len(index) :
        index[i].thread_id = ThreadT =>
            /\ i \in DedupFilter(index, index[i].memory_type,
                                 index[i].user_id, ThreadT)
            /\ i \in RetrieveFilter(index, OneType(index[i].memory_type),
                                    index[i].user_id, ThreadT)

\* C20: validate_config_file validates a file without loading it: a call
\* leaves the configuration get_config() returns and the class defaults
\* DEFAULT_CONFIG as they were before it.
C20_ValidateWithoutLoading ==
    [][last'.op = "validate_config_file" =>
          /\ get_config' = get_config
          /\ default_sections' = default_sections]_vars

\* C21: on every exit path of MemoryMCPServer.run (the transport completes,
\* KeyboardInterrupt, initialization failure, background-task error,
\* cancellation) shutdown() has been executed and the server is not
\* initialized once run has ended.
C21_RunAlwaysShutsDown ==
    run_exit # "" => (shutdown_calls >= 1 /\ ~server_initialized)

\* run() ended by raising after the server had been initialized.
C21_Witness ==
    /\ run_exit = "raised"
    /\ initialized
    /\ last.op = "run_transport_ends"
    /\ last.text = "background_error"

\* C22: once a signal has set the shutdown event while the server task is
\* running, run_server eventually ends (it returns, having cancelled the
\* server task and called server.shutdown(), unless the server task failed
\* by itself in the meantime), with the server not initialized.
C22_GracefulShutdown ==
    (shutdown_event /\ run_pc \in {"initialize", "serving"})
        ~> (runner_pc \in {"returned", "raised"} /\ ~server_initialized)

\* C23: while no memory manager is set (initialize() has not been called), a
\* call of add_memory, get_memory or delete_memory is answered by an error
\* text and performs no memory operation; the code is SERVER_NOT_INITIALIZED
\* when the arguments are well-formed, and that of the validation error
\* (INVALID_INPUT) when a required argument is missing or of the wrong type.
C23_NotInitializedReported ==
    /\ (last.op = "call_tool" /\ ~memory_manager) =>
            (last.calls = <<>> /\ IsErrorText(last.response))
    /\ ~memory_manager =>
        \A call \in {c \in ToolCalls : c.arguments.is_map}, env \in Envs :
            LET arguments == call.arguments
                wellformed ==
                    /\ arguments.user_id.kind = "str"
                    /\ call.name = "add_memory" =>
                        /\ arguments.content.kind = "str"
                        /\ arguments.metadata.kind \in {"missing", "dict"}
                    /\ call.name = "get_memory" =>
                        /\ arguments.query.kind = "str"
                        /\ arguments.limit.kind \in {"missing", "int"}
                    /\ call.name = "delete_memory" => arguments.memory_id.kind = "str"
                h == handle_call_tool(call.name, arguments, memory_manager,
                                      mem0, initialized, next_id, env)
            IN  call.name \in {"add_memory", "get_memory", "delete_memory"} =>
                    /\ h.calls = <<>>
                    /\ h.mem0 = mem0 /\ h.next_id = next_id
                    /\ h.initialized = initialized
                    /\ IsErrorText(h.response)
                    /\ h.response[2] = IF wellformed THEN "SERVER_NOT_INITIALIZED"
                                       ELSE "INVALID_INPUT"

\* A well-formed add_memory call answered with SERVER_NOT_INITIALIZED.
C23_Witness ==
    /\ last.op = "call_tool"
    /\ last.tool = "add_memory"
    /\ last.raised_code = "SERVER_NOT_INITIALIZED"
    /\ ~memory_manager

\* C25: store_memory_tool returns the 'Successfully stored' confirmation
\* only when the call wrote a record of its scope to the index or was
\* skipped because a similar record exists; a call that persisted nothing
\* returns an error text.
C25_SuccessMeansPersisted ==
    [][(last'.op = "store_memory_tool" /\ last'.text = "Successfully stored") =>
          \/ last'.outcome = "skipped" /\ index' = index /\ index # <<>>
          \/ /\ Len(index') = Len(index) + 1
             /\ index'[Len(index')].user_id = ScopeOf(last'.user_id)
             /\ index'[Len(index')].thread_id = last'.thread_id]_vars

\* C26: after an operation whose reconnect attempt failed (it ended with
\* ConnectionError), an operation made once the backing store is reachable
\* again succeeds, reconnecting if need be.
C26_RecoversAfterOutage ==
    (last.op \in {"add_memory", "get_memories", "delete_memory"}
        /\ last.outcome = "ConnectionError") =>
        \A env \in EnvsNoVerify :
            (env.reconn /\ env.call = "ok") =>
                add_memory(mem0, initialized, next_id, "aisle", "alice",
                           NoMetadata, env).outcome = "ok"

\* C28: in every reachable state of the server a memory manager that is set
\* implies that the server is initialized, and a tool call asks something of
\* the backing store only while the server is initialized.
C28_ManagerImpliesInitialized ==
    /\ memory_manager => server_initialized
    /\ (last.op = "call_tool" /\ last.calls # <<>>) => server_initialized

\* C24: execute_tools answers every tool call of the latest AI message that
\* carries tool calls: it appends, in the order of the calls, exactly one
\* ToolMessage per call with the call's id, and leaves the earlier messages
\* as they were.
C24_EveryToolCallAnswered ==
    [][last'.op = "execute_tools" =>
        LET with_calls == {i \in 1..Len(messages) :
                              messages[i].type = "ai" /\ messages[i].tool_calls # <<>>}
            tool_calls == IF with_calls = {} THEN <<>>
                          ELSE messages[CHOOSE i \in with_calls :
                                            \A j \in with_calls : j <= i].tool_calls
        IN  /\ Len(messages') = Len(messages) + Len(tool_calls)
            /\ SubSeq(messages', 1, Len(messages)) = messages
            /\ \A k \in 1..Len(tool_calls) :
                  /\ Len(messages) + k <= Len(messages')
                  /\ messages'[Len(messages) + k].type = "tool"
                  /\ messages'[Len(messages) + k].tool_call_id = tool_calls[k].id]_vars

\* C27: once initialize() has succeeded (the manager is initialized, or a
\* caller is inside a reconnect, every reconnect succeeding), no
\* get_memories call fails with MemoryManagerError 'not initialized',
\* however the calls interleave.
C27_NoFailureDuringReconnect ==
    [][(last'.op = "get_memories" /\ last'.outcome = "MemoryManagerError") =>
          ~(initialized \/ \E q \in Procs : op_pc[q] = "reconnect")]_vars

=============================================================================
